---- MODULE Spec2Model ----
(***************************************************************************)
(* Model of k-comunity/app.py: the review scheduler (update_srs,           *)
(* get_next_question_for_user), the streak tracker (update_user_activity)  *)
(* and the intensive-mode lifecycle (calculate_user_score, the login       *)
(* handler of show_login_page, the admin panel's configuration and pardon).*)
(*                                                                         *)
(* Conventions.                                                            *)
(*  - Time is counted in ticks of LockoutMinutes minutes; a datetime is a  *)
(*    tick number, a date is a day number (DateOf).                        *)
(*  - SQL NULL in a DATE/DATETIME column is NULL (-1).                     *)
(*  - progress.difficulty is kept in hundredths (5.0 is 500); every step   *)
(*    of the source's difficulty formula is a multiple of 0.01.            *)
(*  - progress.stability is kept in units of 1/StabUnit, each product of   *)
(*    the source rounded to the nearest unit.                              *)
(*  - The ratings "difícil", "medio", "fácil" are written without accents. *)
(***************************************************************************)
EXTENDS Integers, Sequences, FiniteSets, TLC

(* ------------------------------ bounds --------------------------------- *)

\* last day the wall clock reaches
MaxDay == 2

\* ticks the wall clock advances one by one inside a day
MaxSlot == 1

\* graded reviews applied to one (user, question) record
MaxReviews == 2

\* activity events appended to the log during a run
MaxNewEvents == 4

\* graded reviews of the one record of the drill
MaxDrill == 7

\* pardons granted during a run
MaxPardons == 1

\* activity events one student leaves in a day of the streak run
MaxEventsPerDay == 3

(* ------------------------- program constants --------------------------- *)

LockoutMinutes == 15

MaxFailedAttempts == 5

QuotaPoints == 30

DefaultInactivityDays == 3

NULL == -1

\* a stored intensive_start_date that no strptime format accepts
Unparseable == -2

TicksPerDay == (24 * 60) \div LockoutMinutes

ADMIN_USER == "admin"

Usernames == {"admin", "u1", "u2"}

QuestionIds == {1, 2, 3}

Tags == {"cardio", "neuro"}

Ratings == {"dificil", "medio", "facil"}

\* what the rating argument of update_srs can be: the three buttons' values
\* and a value that is none of them
RatingInputs == Ratings \cup {"otro"}

(* ------------------------------ state ---------------------------------- *)

VARIABLES
    clock,          \* datetime.datetime.now(), in ticks
    users,          \* table users: username -> row
    questions,      \* table questions: id -> row
    progress,       \* table progress: <<username, question_id>> -> row
    activity_log,   \* table activity_log, in insertion (id) order
    deleted_users_log, \* table deleted_users_log, in insertion order
    sessions,       \* usernames with st.session_state.logged_in = True
    question_votes, \* table question_votes: <<user_username, question_id>>
                    \* -> vote_type
    duels,          \* table duels: <<challenger_username, opponent_username>>
                    \* of its rows
    grading,        \* handle_srs_update calls in flight: browser tab -> locals
    last            \* the operation that produced this state, and its outcome

vars == <<clock, users, questions, progress, activity_log, deleted_users_log,
          sessions, question_votes, duels, grading, last>>

NoRow == [exists |-> FALSE]

\* no row of question_votes for a (user, question) pair
NoVote == 0

\* vote_type of the two karma buttons
VoteTypes == {1, -1}

\* the browser tabs one user can be logged in from at once
Tabs == {"tab1", "tab2"}

\* the locals of a handle_srs_update call: where it stands, its argument,
\* and the rows its two SELECTs returned
NotGrading ==
    [pc |-> "idle", difficulty |-> "", progress_row |-> NoRow,
     aciertos_fallos |-> NoRow]

\* datetime.date.today()
DateOf(t) == t \div TicksPerDay

Today == DateOf(clock)

\* datetime.datetime.strptime(s, '%Y-%m-%d'): a date read back as a datetime
Midnight(d) == d * TicksPerDay

Max(a, b) == IF a >= b THEN a ELSE b

Min(a, b) == IF a <= b THEN a ELSE b

(* ------------------------- real arithmetic ---------------------------- *)

\* progress.stability is a REAL; the model keeps it in units of 1/StabUnit
\* day, each product rounded to the nearest unit.  On every sequence of up
\* to 8 ratings this gives the intervals the float computation gives.
StabUnit == 100000

\* n / d to the nearest integer, ties to even (n >= 0, d > 0)
RoundDiv(n, d) ==
    LET q == n \div d
        r == n % d
    IN  IF 2 * r < d THEN q
        ELSE IF 2 * r > d THEN q + 1
        ELSE IF q % 2 = 0 THEN q ELSE q + 1

(* ------------------------------ update_srs ----------------------------- *)

\* 1. rating -> grade; the last branch is an else
GradeOf(difficulty_rating) ==
    IF difficulty_rating = "dificil" THEN 1
    ELSE IF difficulty_rating = "medio" THEN 3
    ELSE 5

\* 3. difficulty, in hundredths: 0 stands for "no prior value"
NewDifficultyNoClamp(d_prev, grade) ==
    IF d_prev = 0 THEN 500 ELSE d_prev - 32 + 18 * (grade - 3)

NewDifficulty(d_prev, grade) ==
    LET d_new == IF d_prev = 0 THEN 500 ELSE d_prev - 32 + 18 * (grade - 3)
    IN  Max(100, Min(1000, d_new))

\* 4. stability, in units: s_prev * (1 + 1.5 / (d_new * 0.3)) is
\*    s_prev + s_prev * 500 / d_new with d_new in hundredths
\* a lapse that halves the stability
NewStabilityHalved(s_prev, d_new, grade) ==
    IF s_prev = 0
    THEN IF grade = 1 THEN (4 * StabUnit) \div 10
         ELSE IF grade = 3 THEN 2 * StabUnit
         ELSE 5 * StabUnit
    ELSE IF grade = 1
         THEN RoundDiv(s_prev, 2)
         ELSE s_prev + (s_prev \div d_new) * 500
                     + RoundDiv((s_prev % d_new) * 500, d_new)

\* a new card seeded with the stability of "medio" whatever the grade
NewStabilityOneSeed(s_prev, d_new, grade) ==
    IF s_prev = 0
    THEN 2 * StabUnit
    ELSE IF grade = 1
         THEN RoundDiv(s_prev * 2, 5)
         ELSE s_prev + (s_prev \div d_new) * 500
                     + RoundDiv((s_prev % d_new) * 500, d_new)

\* the growth factor without its "1 +"
NewStabilityBareFactor(s_prev, d_new, grade) ==
    IF s_prev = 0
    THEN IF grade = 1 THEN (4 * StabUnit) \div 10
         ELSE IF grade = 3 THEN 2 * StabUnit
         ELSE 5 * StabUnit
    ELSE IF grade = 1
         THEN RoundDiv(s_prev * 2, 5)
         ELSE (s_prev \div d_new) * 500
                     + RoundDiv((s_prev % d_new) * 500, d_new)

NewStability(s_prev, d_new, grade) ==
    IF s_prev = 0
    THEN IF grade = 1 THEN (4 * StabUnit) \div 10
         ELSE IF grade = 3 THEN 2 * StabUnit
         ELSE 5 * StabUnit
    ELSE IF grade = 1
         THEN RoundDiv(s_prev * 2, 5)
         ELSE s_prev + (s_prev \div d_new) * 500
                     + RoundDiv((s_prev % d_new) * 500, d_new)

\* 5. interval = max(1, round(s_new * 0.9))
NewIntervalNoFloor(s_new) == RoundDiv(s_new * 9, 10 * StabUnit)

NewInterval(s_new) == Max(1, RoundDiv(s_new * 9, 10 * StabUnit))

\* 6. due date
NewDueDateOffByOne(today, new_interval) == today + new_interval + 1

NewDueDate(today, new_interval) == today + new_interval

\* 7. the counters: grade 1 counts a failure, any other grade a success
NewCountersReset(row, grade) ==
    LET aciertos == IF row.exists THEN row.aciertos ELSE 0
        fallos   == IF row.exists THEN row.fallos ELSE 0
    IN  IF grade = 1 THEN [aciertos |-> aciertos, fallos |-> 1]
                     ELSE [aciertos |-> 1, fallos |-> fallos]

NewCounters(row, grade) ==
    LET aciertos == IF row.exists THEN row.aciertos ELSE 0
        fallos   == IF row.exists THEN row.fallos ELSE 0
    IN  IF grade = 1 THEN [aciertos |-> aciertos, fallos |-> fallos + 1]
                     ELSE [aciertos |-> aciertos + 1, fallos |-> fallos]

\* 2.-8. the row the UPSERT leaves for (username, question_id)
SrsRow(row, difficulty_rating, today) ==
    LET grade  == GradeOf(difficulty_rating)
        s_prev == IF row.exists THEN row.stability ELSE 0
        d_prev == IF row.exists THEN row.difficulty ELSE 0
        d_new  == NewDifficulty(d_prev, grade)
        s_new  == NewStability(s_prev, d_new, grade)
        new_interval == NewInterval(s_new)
        counters == NewCounters(row, grade)
    IN  [exists      |-> TRUE,
         due_date    |-> NewDueDate(today, new_interval),
         interval    |-> new_interval,
         aciertos    |-> counters.aciertos,
         fallos      |-> counters.fallos,
         stability   |-> s_new,
         difficulty  |-> d_new,
         last_review |-> today]

(* ------------------------- update_user_activity ------------------------ *)

\* update_user_activity without the return for "already studied today"
UpdateUserActivityEveryAction(tbl, username, today) ==
    IF ~tbl[username].exists THEN tbl
    ELSE LET user == tbl[username]
             last_active == user.last_active_date
             new_streak ==
                 IF last_active = NULL THEN 1
                 ELSE IF last_active = today - 1
                      THEN user.current_streak + 1
                      ELSE 1
             new_total_days ==
                 IF last_active = NULL THEN 1
                 ELSE user.total_active_days + 1
         IN  [tbl EXCEPT ![username] =
                 [user EXCEPT !.last_active_date = today,
                              !.current_streak = new_streak,
                              !.total_active_days = new_total_days]]

\* update_user_activity with a streak that no gap breaks
UpdateUserActivityNoBreak(tbl, username, today) ==
    IF ~tbl[username].exists THEN tbl
    ELSE LET user == tbl[username]
             last_active == user.last_active_date
         IN  IF last_active = today THEN tbl
             ELSE [tbl EXCEPT ![username] =
                     [user EXCEPT
                         !.last_active_date = today,
                         !.current_streak = user.current_streak + 1,
                         !.total_active_days = user.total_active_days + 1]]

\* the users table after update_user_activity(conn, username)
UpdateUserActivity(tbl, username, today) ==
    IF ~tbl[username].exists THEN tbl
    ELSE LET user == tbl[username]
             last_active == user.last_active_date
         IN  IF last_active = today THEN tbl
             ELSE LET new_streak ==
                          IF last_active = NULL THEN 1
                          ELSE IF last_active = today - 1
                               THEN user.current_streak + 1
                               ELSE 1
                      new_total_days ==
                          IF last_active = NULL THEN 1
                          ELSE user.total_active_days + 1
                  IN  [tbl EXCEPT ![username] =
                          [user EXCEPT !.last_active_date = today,
                                       !.current_streak = new_streak,
                                       !.total_active_days = new_total_days]]

(* --------------------- get_next_question_for_user ---------------------- *)

NoQuestion == [found |-> FALSE, id |-> 0, is_advance |-> FALSE]

Found(id, is_advance) == [found |-> TRUE, id |-> id, is_advance |-> is_advance]

\* the filter q.status = 'active' left out
ExistingQuestions == {q \in QuestionIds : questions[q].exists}

ActiveQuestions == {q \in QuestionIds : questions[q].exists /\ questions[q].status = "active"}

DueDateOf(username, q) == progress[<<username, q>>].due_date

\* the rows ORDER BY p.due_date ASC LIMIT 1 can return: those due earliest
EarliestDue(username, S) ==
    {q \in S : \A r \in S : DueDateOf(username, q) <= DueDateOf(username, r)}

\* Intento 1: rows of query_priority, LEFT JOIN progress
PriorityDue(username, today) ==
    {q \in ActiveQuestions :
        progress[<<username, q>>].exists /\ DueDateOf(username, q) <= today}

PriorityNew(username) ==
    {q \in ActiveQuestions : ~progress[<<username, q>>].exists}

\* ORDER BY p.due_date ASC alone: the NULL due_date of a new item sorts first
PriorityPickNewFirst(username, today) ==
    IF PriorityNew(username) # {}
    THEN PriorityNew(username)
    ELSE EarliestDue(username, PriorityDue(username, today))

\* ORDER BY CASE WHEN p.due_date <= ? THEN 0 ELSE 1 END, p.due_date ASC LIMIT 1
PriorityPick(username, today) ==
    IF PriorityDue(username, today) # {}
    THEN EarliestDue(username, PriorityDue(username, today))
    ELSE PriorityNew(username)

\* query_advance without the condition on last_review
AdvanceRowsAnyReview(username, today) ==
    {q \in ActiveQuestions :
        progress[<<username, q>>].exists /\ DueDateOf(username, q) > today}

\* Intento 2: rows of query_advance, JOIN progress
AdvanceRows(username, today) ==
    {q \in ActiveQuestions :
        /\ progress[<<username, q>>].exists
        /\ DueDateOf(username, q) > today
        /\ \/ progress[<<username, q>>].last_review = NULL
           \/ progress[<<username, q>>].last_review # today}

AdvancePick(username, today) ==
    EarliestDue(username, AdvanceRows(username, today))

\* query_fallback with the status test turned round
FallbackPickInRevision == ExistingQuestions \ ActiveQuestions

\* Intento 3: query_fallback, ORDER BY RANDOM() LIMIT 1
FallbackNone == {}

FallbackPick == ActiveQuestions

\* the topic query without tag_tema = ?
TopicPickAnyTag(tag) == ActiveQuestions

\* MODO PRIORITARIO: practice by topic, ORDER BY RANDOM() LIMIT 1
TopicPick(tag) == {q \in ActiveQuestions : questions[q].tag_tema = tag}

\* every value get_next_question_for_user(username) can return, given the
\* session's practice_mode and selected_tag ("" when the key is not set)
GetNextQuestionAdvanceFirst(username, practice_mode, selected_tag) ==
    LET today == Today IN
    IF AdvancePick(username, today) # {}
    THEN {Found(q, TRUE) : q \in AdvancePick(username, today)}
    ELSE IF PriorityPick(username, today) # {}
    THEN {Found(q, FALSE) : q \in PriorityPick(username, today)}
    ELSE IF FallbackPick # {}
    THEN {Found(q, TRUE) : q \in FallbackPick}
    ELSE {NoQuestion}

GetNextQuestionForUser(username, practice_mode, selected_tag) ==
    LET today == Today IN
    IF practice_mode /\ selected_tag # ""
    THEN IF TopicPick(selected_tag) = {}
         THEN {NoQuestion}
         ELSE {Found(q, FALSE) : q \in TopicPick(selected_tag)}
    ELSE IF PriorityPick(username, today) # {}
    THEN {Found(q, FALSE) : q \in PriorityPick(username, today)}
    ELSE IF AdvancePick(username, today) # {}
    THEN {Found(q, TRUE) : q \in AdvancePick(username, today)}
    ELSE IF FallbackPick # {}
    THEN {Found(q, TRUE) : q \in FallbackPick}
    ELSE {NoQuestion}

(* ------------------------- calculate_user_score ------------------------ *)

\* strptime(start_str, '%Y-%m-%d') succeeds on what the code itself stores
Parseable(d) == d >= 0

\* the except branch taken as "no event counts"
WindowStartFailClosed(username, days_limit) ==
    LET window_start == clock - days_limit * TicksPerDay
        user == users[username]
    IN  IF user.exists /\ user.intensive_start_date # NULL
        THEN IF Parseable(user.intensive_start_date)
             THEN Max(Midnight(user.intensive_start_date), window_start)
             ELSE clock + 1
        ELSE window_start

EventsOf(username) ==
    {i \in 1..Len(activity_log) : activity_log[i].username = username}

WindowStartNoGrace(username, days_limit) == clock - days_limit * TicksPerDay

\* 1.-2. start_date_filter
WindowStart(username, days_limit) ==
    LET window_start == clock - days_limit * TicksPerDay
        user == users[username]
    IN  IF user.exists /\ user.intensive_start_date # NULL
           /\ Parseable(user.intensive_start_date)
        THEN Max(Midnight(user.intensive_start_date), window_start)
        ELSE window_start

CalculateUserScoreAnyKind(username, days_limit) ==
    LET start_date_filter == WindowStart(username, days_limit)
        logs == {i \in EventsOf(username) :
                    activity_log[i].timestamp >= start_date_filter}
        num_respuestas == Cardinality({i \in logs :
            activity_log[i].action_type # "create"})
        num_creadas == Cardinality({i \in logs :
            activity_log[i].action_type = "create"})
    IN  [score |-> num_respuestas + 2 * num_creadas,
         num_creadas |-> num_creadas,
         num_respuestas |-> num_respuestas]

\* 3. the rows of the query, then the counting loop
CalculateUserScore(username, days_limit) ==
    LET start_date_filter == WindowStart(username, days_limit)
        logs == {i \in EventsOf(username) :
                    activity_log[i].timestamp >= start_date_filter}
        num_respuestas == Cardinality({i \in logs :
            activity_log[i].action_type \in {"answer", "answer_submitted"}})
        num_creadas == Cardinality({i \in logs :
            activity_log[i].action_type = "create"})
    IN  [score |-> num_respuestas + 2 * num_creadas,
         num_creadas |-> num_creadas,
         num_respuestas |-> num_respuestas]

(* ------------------- show_login_page: the login form ------------------- *)

\* 1. Chequeo de Bloqueo
LockedOut(user) == user.lockout_until # NULL /\ user.lockout_until > clock

\* is_in_grace_period for an intensive user
IsInGracePeriodShort(user) ==
    IF user.intensive_start_date = NULL THEN TRUE
    ELSE Today - user.intensive_start_date < user.max_inactivity_days - 1

IsInGracePeriod(user) ==
    IF user.intensive_start_date = NULL THEN TRUE
    ELSE Today - user.intensive_start_date < user.max_inactivity_days

\* SELECT MAX(timestamp) FROM activity_log WHERE username = ?
LastActivity(username) ==
    IF EventsOf(username) = {} THEN NULL
    ELSE CHOOSE ts \in {activity_log[i].timestamp : i \in EventsOf(username)} :
            \A i \in EventsOf(username) : activity_log[i].timestamp <= ts

\* is_inactive: (now - last_activity_date).days > max_inactivity_days
IsInactive(username, max_inactivity_days) ==
    IF LastActivity(username) = NULL THEN TRUE
    ELSE (clock - LastActivity(username)) \div TicksPerDay > max_inactivity_days

\* score < 30 or is_inactive
QuotaMissedLenient(username, max_inactivity_days) ==
    /\ CalculateUserScore(username, max_inactivity_days).score < QuotaPoints
    /\ IsInactive(username, max_inactivity_days)

\* the score left out of the decision
QuotaMissedInactiveOnly(username, max_inactivity_days) ==
    IsInactive(username, max_inactivity_days)

QuotaMissed(username, max_inactivity_days) ==
    \/ CalculateUserScore(username, max_inactivity_days).score < QuotaPoints
    \/ IsInactive(username, max_inactivity_days)

\* strptime(start_date_str, '%Y-%m-%d') of the handler, outside any try:
\* the ValueError ends the run of the script
StartDateRaises(user) ==
    /\ user.is_intensive = 1
    /\ user.intensive_start_date # NULL
    /\ ~Parseable(user.intensive_start_date)

\* how the handler ends for this username and password
LoginResultNoGrace(username, password_ok) ==
    LET user == users[username] IN
    IF ~user.exists THEN "no_user"
    ELSE IF LockedOut(user) THEN "locked"
    ELSE IF ~password_ok THEN "bad_password"
    ELSE IF user.status = "pending_delete" THEN "pending"
    ELSE IF StartDateRaises(user) THEN "error"
    ELSE IF user.is_intensive = 1
            /\ QuotaMissed(username, user.max_inactivity_days)
         THEN "quota_denied"
    ELSE IF user.is_approved = 1 THEN "ok"
    ELSE "unapproved"

LoginResultQuotaForAll(username, password_ok) ==
    LET user == users[username] IN
    IF ~user.exists THEN "no_user"
    ELSE IF LockedOut(user) THEN "locked"
    ELSE IF ~password_ok THEN "bad_password"
    ELSE IF user.status = "pending_delete" THEN "pending"
    ELSE IF StartDateRaises(user) THEN "error"
    ELSE IF QuotaMissed(username, user.max_inactivity_days) THEN "quota_denied"
    ELSE IF user.is_approved = 1 THEN "ok"
    ELSE "unapproved"

\* the approval check left out
LoginResultNoApproval(username, password_ok) ==
    LET user == users[username] IN
    IF ~user.exists THEN "no_user"
    ELSE IF LockedOut(user) THEN "locked"
    ELSE IF ~password_ok THEN "bad_password"
    ELSE IF user.status = "pending_delete" THEN "pending"
    ELSE IF StartDateRaises(user) THEN "error"
    ELSE IF user.is_intensive = 1 /\ ~IsInGracePeriod(user)
            /\ QuotaMissed(username, user.max_inactivity_days)
         THEN "quota_denied"
    ELSE "ok"

LoginResult(username, password_ok) ==
    LET user == users[username] IN
    IF ~user.exists THEN "no_user"
    ELSE IF LockedOut(user) THEN "locked"
    ELSE IF ~password_ok THEN "bad_password"
    ELSE IF user.status = "pending_delete" THEN "pending"
    ELSE IF StartDateRaises(user) THEN "error"
    ELSE IF user.is_intensive = 1 /\ ~IsInGracePeriod(user)
            /\ QuotaMissed(username, user.max_inactivity_days)
         THEN "quota_denied"
    ELSE IF user.is_approved = 1 THEN "ok"
    ELSE "unapproved"

\* the lockout set one attempt late
FailedAttemptRowLate(user) ==
    LET new_attempts == user.failed_attempts + 1 IN
    IF new_attempts > MaxFailedAttempts
    THEN [user EXCEPT !.failed_attempts = 0, !.lockout_until = clock + 1]
    ELSE [user EXCEPT !.failed_attempts = new_attempts]

\* FALLO: the row after a wrong password
FailedAttemptRow(user) ==
    LET new_attempts == user.failed_attempts + 1 IN
    IF new_attempts >= MaxFailedAttempts
    THEN [user EXCEPT !.failed_attempts = 0, !.lockout_until = clock + 1]
    ELSE [user EXCEPT !.failed_attempts = new_attempts]

\* ACIERTO: the row after a right password
VerifiedRowReactivate(user, result) ==
    LET reset == [user EXCEPT !.failed_attempts = 0, !.lockout_until = NULL]
        started ==
            IF user.is_intensive = 1 /\ user.intensive_start_date = NULL
            THEN [reset EXCEPT !.intensive_start_date = Today]
            ELSE reset
    IN  IF result = "quota_denied"
        THEN [started EXCEPT !.status = "pending_delete"]
        ELSE [started EXCEPT !.status = "active"]

VerifiedRowNoStart(user, result) ==
    LET reset == [user EXCEPT !.failed_attempts = 0, !.lockout_until = NULL]
    IN  IF result = "quota_denied"
        THEN [reset EXCEPT !.status = "pending_delete"]
        ELSE reset

VerifiedRow(user, result) ==
    LET reset == [user EXCEPT !.failed_attempts = 0, !.lockout_until = NULL]
        started ==
            IF result # "pending" /\ user.is_intensive = 1
               /\ user.intensive_start_date = NULL
            THEN [reset EXCEPT !.intensive_start_date = Today]
            ELSE reset
    IN  IF result = "quota_denied"
        THEN [started EXCEPT !.status = "pending_delete"]
        ELSE started

\* an attempt during the lockout counted as a failed one
LoginRowCountsWhileLocked(username, password_ok) ==
    LET user == users[username]
        result == LoginResult(username, password_ok)
    IN  IF result = "no_user" THEN user
        ELSE IF result = "locked"
        THEN [user EXCEPT !.failed_attempts = user.failed_attempts + 1]
        ELSE IF result = "bad_password" THEN FailedAttemptRow(user)
        ELSE VerifiedRow(user, result)

\* the users row the handler leaves
LoginRow(username, password_ok) ==
    LET user == users[username]
        result == LoginResult(username, password_ok)
    IN  IF result \in {"no_user", "locked"} THEN user
        ELSE IF result = "bad_password" THEN FailedAttemptRow(user)
        ELSE VerifiedRow(user, result)

(* ------------------------------ actions -------------------------------- *)

Op(op, user, qid, arg, result) ==
    [op |-> op, user |-> user, qid |-> qid, arg |-> arg, result |-> result]

Event(username, action_type) ==
    [username |-> username, action_type |-> action_type, timestamp |-> clock]

\* a row of users as the register form and the column defaults leave it
NewUserRow(role, is_approved) ==
    [exists |-> TRUE, role |-> role, is_approved |-> is_approved,
     is_intensive |-> 0, max_inactivity_days |-> DefaultInactivityDays,
     status |-> "active", intensive_start_date |-> NULL,
     total_active_days |-> 0, current_streak |-> 0, last_active_date |-> NULL,
     failed_attempts |-> 0, lockout_until |-> NULL]

\* handle_srs_update(difficulty) on the card of question_id: log_event, then
\* update_srs and the commit
HandleSrsUpdate(username, question_id, difficulty) ==
    /\ username \in sessions
    /\ questions[question_id].exists
    /\ activity_log' = activity_log \o
            <<Event(username, "answer_submitted"), Event(username, "answer")>>
    /\ progress' = [progress EXCEPT ![<<username, question_id>>] =
            SrsRow(progress[<<username, question_id>>], difficulty, Today)]
    /\ users' = UpdateUserActivity(users, username, Today)
    /\ last' = Op("grade", username, question_id, difficulty, "done")
    /\ UNCHANGED <<duels, clock, questions, deleted_users_log, sessions, grading,
                   question_votes>>

(* The same call of one tab, statement by statement.  The SELECTs of      *)
(* update_srs run outside any transaction; the UPSERT opens the one that   *)
(* handle_srs_update commits.                                              *)

\* handle_srs_update: log_event("answer_submitted"), on its own connection
HandleSrsUpdateBegin(tab, username, question_id, difficulty) ==
    /\ username \in sessions
    /\ questions[question_id].exists
    /\ grading[tab].pc = "idle"
    /\ activity_log' = Append(activity_log, Event(username, "answer_submitted"))
    /\ grading' = [grading EXCEPT ![tab] =
            [NotGrading EXCEPT !.pc = "select_state", !.difficulty = difficulty]]
    /\ last' = Op("grade_begin", username, question_id, difficulty, tab)
    /\ UNCHANGED <<duels, clock, users, questions, progress, deleted_users_log,
                   sessions, question_votes>>

\* update_srs 2.: SELECT stability, difficulty
UpdateSrsSelectState(tab, username, question_id) ==
    /\ grading[tab].pc = "select_state"
    /\ grading' = [grading EXCEPT ![tab].pc = "select_counters",
                                  ![tab].progress_row =
                                        progress[<<username, question_id>>]]
    /\ last' = Op("grade_select", username, question_id,
                  grading[tab].difficulty, tab)
    /\ UNCHANGED <<duels, clock, users, questions, progress, activity_log,
                   deleted_users_log, sessions, question_votes>>

\* update_srs 7.: SELECT aciertos, fallos
UpdateSrsSelectCounters(tab, username, question_id) ==
    /\ grading[tab].pc = "select_counters"
    /\ grading' = [grading EXCEPT ![tab].pc = "upsert",
                                  ![tab].aciertos_fallos =
                                        progress[<<username, question_id>>]]
    /\ last' = Op("grade_select", username, question_id,
                  grading[tab].difficulty, tab)
    /\ UNCHANGED <<duels, clock, users, questions, progress, activity_log,
                   deleted_users_log, sessions, question_votes>>

\* the row update_srs computes from, as its two SELECTs returned it
RowAsRead(progress_row, aciertos_fallos) ==
    [exists     |-> TRUE,
     stability  |-> IF progress_row.exists THEN progress_row.stability ELSE 0,
     difficulty |-> IF progress_row.exists THEN progress_row.difficulty ELSE 0,
     aciertos   |-> IF aciertos_fallos.exists THEN aciertos_fallos.aciertos ELSE 0,
     fallos     |-> IF aciertos_fallos.exists THEN aciertos_fallos.fallos ELSE 0]

\* update_srs 8.: the UPSERT, the 'answer' event, update_user_activity, and
\* the commit of handle_srs_update
UpdateSrsUpsert(tab, username, question_id) ==
    /\ grading[tab].pc = "upsert"
    /\ progress' = [progress EXCEPT ![<<username, question_id>>] =
            SrsRow(RowAsRead(grading[tab].progress_row,
                             grading[tab].aciertos_fallos),
                   grading[tab].difficulty, Today)]
    /\ activity_log' = Append(activity_log, Event(username, "answer"))
    /\ users' = UpdateUserActivity(users, username, Today)
    /\ grading' = [grading EXCEPT ![tab].pc = "done"]
    /\ last' = Op("grade", username, question_id, grading[tab].difficulty, tab)
    /\ UNCHANGED <<duels, clock, questions, deleted_users_log, sessions,
                   question_votes>>

\* the AUTOINCREMENT id of the next question
NextQuestionId == CHOOSE q \in QuestionIds :
    ~questions[q].exists /\ \A r \in QuestionIds : r < q => questions[r].exists

\* show_create_page: the form submitted with every field filled
ShowCreatePage(owner, tag_tema) ==
    /\ owner \in sessions
    /\ \E q \in QuestionIds : ~questions[q].exists
    /\ questions' = [questions EXCEPT ![NextQuestionId] =
            [exists |-> TRUE, owner_username |-> owner, tag_tema |-> tag_tema,
             status |-> "active", karma |-> 0]]
    /\ activity_log' = Append(activity_log, Event(owner, "create"))
    /\ users' = UpdateUserActivity(users, owner, Today)
    /\ last' = Op("create", owner, NextQuestionId, tag_tema, "done")
    /\ UNCHANGED <<duels, clock, progress, deleted_users_log, sessions, grading,
                   question_votes>>

\* the page storing a record for the question it shows
ShowEvaluationPageSeen(username) ==
    /\ username \in sessions
    /\ \E r \in GetNextQuestionForUser(username, FALSE, "") :
          /\ last' = Op("next", username, r.id, "",
                        IF ~r.found THEN "none"
                        ELSE IF r.is_advance THEN "advance" ELSE "due")
          /\ progress' = IF r.found /\ ~progress[<<username, r.id>>].exists
                         THEN [progress EXCEPT ![<<username, r.id>>] =
                                   SrsRow(NoRow, "medio", Today)]
                         ELSE progress
    /\ UNCHANGED <<duels, clock, users, questions, activity_log,
                   deleted_users_log, sessions, grading, question_votes>>

\* show_evaluation_page fetching current_eval_question_data
ShowEvaluationPage(username) ==
    /\ username \in sessions
    /\ \E r \in GetNextQuestionForUser(username, FALSE, "") :
          last' = Op("next", username, r.id, "",
                     IF ~r.found THEN "none"
                     ELSE IF r.is_advance THEN "advance" ELSE "due")
    /\ UNCHANGED <<duels, clock, users, questions, progress, activity_log,
                   deleted_users_log, sessions, grading, question_votes>>

\* cast_vote: La Regla, unlikes that send a question to revision
UnlikeLimit == 3

\* SELECT COUNT(*) FROM question_votes WHERE question_id = ? AND vote_type = ?
VoteCount(votes, question_id, vote_type) ==
    Cardinality({u \in Usernames : votes[<<u, question_id>>] = vote_type})

\* the question sent to revision one unlike early
QuestionAfterVoteEarly(question, question_id, vote_type, votes) ==
    LET revised ==
            IF vote_type = -1
               /\ VoteCount(votes, question_id, -1) >= UnlikeLimit - 1
            THEN [question EXCEPT !.status = "needs_revision"]
            ELSE question
    IN  [revised EXCEPT !.karma = VoteCount(votes, question_id, 1)
                                  - VoteCount(votes, question_id, -1)]

\* update_karma: the questions row after the vote is stored in votes
QuestionAfterVote(question, question_id, vote_type, votes) ==
    LET revised ==
            IF vote_type = -1
               /\ VoteCount(votes, question_id, -1) >= UnlikeLimit
            THEN [question EXCEPT !.status = "needs_revision"]
            ELSE question
    IN  [revised EXCEPT !.karma = VoteCount(votes, question_id, 1)
                                  - VoteCount(votes, question_id, -1)]

\* render_question_card: a karma button pressed on the card of a question
\* (the buttons are drawn when has_user_voted is false)
HandleKarmaUpdate(username, question_id, vote_type) ==
    /\ username \in sessions
    /\ questions[question_id].exists
    /\ question_votes[<<username, question_id>>] = NoVote
    /\ question_votes' =
            [question_votes EXCEPT ![<<username, question_id>>] = vote_type]
    /\ questions' = [questions EXCEPT ![question_id] =
            QuestionAfterVote(questions[question_id], question_id, vote_type,
                              question_votes')]
    /\ last' = Op("vote", username, question_id,
                  IF vote_type = 1 THEN "like" ELSE "unlike", "done")
    /\ UNCHANGED <<duels, clock, users, progress, activity_log, deleted_users_log,
                   sessions, grading>>

\* show_evaluation_page fetching current_eval_question_data in a session
\* that holds practice_mode = True and selected_tag
PracticeByTopic(username, selected_tag) ==
    /\ username \in sessions
    /\ \E r \in GetNextQuestionForUser(username, TRUE, selected_tag) :
          last' = Op("next_topic", username, r.id, selected_tag,
                     IF ~r.found THEN "none"
                     ELSE IF r.is_advance THEN "advance" ELSE "due")
    /\ UNCHANGED <<duels, clock, users, questions, progress, activity_log,
                   deleted_users_log, sessions, grading, question_votes>>

\* show_login_page: the login form submitted
ShowLoginPage(username, password_ok) ==
    /\ users' = [users EXCEPT ![username] = LoginRow(username, password_ok)]
    /\ sessions' = IF LoginResult(username, password_ok) = "ok"
                   THEN sessions \cup {username} ELSE sessions
    /\ last' = Op("login", username, 0,
                  IF password_ok THEN "right" ELSE "wrong",
                  LoginResult(username, password_ok))
    /\ UNCHANGED <<duels, clock, questions, progress, activity_log,
                   deleted_users_log, grading, question_votes>>

\* main: "Cerrar Sesión"
Logout(username) ==
    /\ username \in sessions
    /\ sessions' = sessions \ {username}
    /\ last' = Op("logout", username, 0, "", "done")
    /\ UNCHANGED <<duels, clock, users, questions, progress, activity_log,
                   deleted_users_log, grading, question_votes>>

\* show_login_page: the register form
RegisterUser(new_username) ==
    /\ new_username # ADMIN_USER
    /\ ~users[new_username].exists
    /\ users' = [users EXCEPT ![new_username] = NewUserRow("user", 0)]
    /\ last' = Op("register", new_username, 0, "", "done")
    /\ UNCHANGED <<duels, clock, questions, progress, activity_log,
                   deleted_users_log, sessions, grading, question_votes>>

\* the rows show_admin_panel lists under "Gestionar usuarios activos"
UsuariosActivos ==
    {u \in Usernames : u # ADMIN_USER /\ users[u].exists /\ users[u].status = "active"}

\* show_admin_panel: 'aprobar' / 'revocar' confirmed
AdminSetApproval(username, is_approved) ==
    /\ ADMIN_USER \in sessions
    /\ username \in UsuariosActivos
    /\ users[username].is_approved # is_approved
    /\ users' = [users EXCEPT ![username].is_approved = is_approved]
    /\ last' = Op("approval", username, 0, "", "done")
    /\ UNCHANGED <<duels, clock, questions, progress, activity_log,
                   deleted_users_log, sessions, grading, question_votes>>

\* 'Guardar Configuración' with a deactivation that keeps the date
IntensiveConfigRowKeepDate(user, new_is_intensive, inactivity_days) ==
    IF new_is_intensive = 1 /\ user.is_intensive = 0
    THEN [user EXCEPT !.is_intensive = 1,
                      !.max_inactivity_days = inactivity_days,
                      !.intensive_start_date = Today]
    ELSE IF new_is_intensive = 0 /\ user.is_intensive = 1
    THEN [user EXCEPT !.is_intensive = 0]
    ELSE [user EXCEPT !.max_inactivity_days = inactivity_days]

\* the row 'Guardar Configuración' leaves
IntensiveConfigRow(user, new_is_intensive, inactivity_days) ==
    IF new_is_intensive = 1 /\ user.is_intensive = 0
    THEN [user EXCEPT !.is_intensive = 1,
                      !.max_inactivity_days = inactivity_days,
                      !.intensive_start_date = Today]
    ELSE IF new_is_intensive = 0 /\ user.is_intensive = 1
    THEN [user EXCEPT !.is_intensive = 0, !.intensive_start_date = NULL]
    ELSE [user EXCEPT !.max_inactivity_days = inactivity_days]

\* show_admin_panel: 'Configurar Modo Intensivo' saved
AdminSaveIntensive(username, new_is_intensive, inactivity_days) ==
    /\ ADMIN_USER \in sessions
    /\ username \in UsuariosActivos
    /\ users' = [users EXCEPT ![username] =
            IntensiveConfigRow(users[username], new_is_intensive, inactivity_days)]
    /\ last' = Op("configure", username, 0, "", "done")
    /\ UNCHANGED <<duels, clock, questions, progress, activity_log,
                   deleted_users_log, sessions, grading, question_votes>>

\* a pardon that also opens a new grace period
PardonRowRestart(user) ==
    [user EXCEPT !.status = "active", !.intensive_start_date = Today]

\* show_admin_panel: "Indultar (Perdonar)"
PardonRow(user) == [user EXCEPT !.status = "active"]

\* the pardon written over the user's events instead of after them
LogAfterPardonRewritten(log, username) ==
    [i \in 1..Len(log) |->
        IF log[i].username = username THEN Event(username, "pardoned")
        ELSE log[i]]

\* INSERT INTO activity_log ... 'pardoned'
LogAfterPardon(log, username) == Append(log, Event(username, "pardoned"))

AdminPardon(username) ==
    /\ ADMIN_USER \in sessions
    /\ users[username].exists
    /\ users[username].status = "pending_delete"
    /\ users' = [users EXCEPT ![username] = PardonRow(users[username])]
    /\ activity_log' = LogAfterPardon(activity_log, username)
    /\ last' = Op("pardon", username, 0, "", "done")
    /\ UNCHANGED <<duels, clock, questions, progress, deleted_users_log, sessions,
                   grading, question_votes>>

\* delete_user_from_db runs with PRAGMA foreign_keys = ON: DELETE FROM users
\* raises while a row of question_votes still references the user, and the
\* handler rolls the transaction back
DeleteCommits(username) ==
    /\ username # ADMIN_USER
    /\ \A q \in QuestionIds : question_votes[<<username, q>>] = NoVote

\* the progress rows deleted although the transaction is rolled back
ProgressAfterDeleteNoRollback(username) ==
    [k \in DOMAIN progress |->
        IF k[1] = username /\ username # ADMIN_USER THEN NoRow ELSE progress[k]]

\* delete_user_from_db: what the transaction leaves
UsersAfterDelete(username) ==
    IF ~DeleteCommits(username) THEN users
    ELSE [users EXCEPT ![username] = NoRow]

ProgressAfterDelete(username) ==
    IF ~DeleteCommits(username) THEN progress
    ELSE [k \in DOMAIN progress |-> IF k[1] = username THEN NoRow ELSE progress[k]]

QuestionsAfterDelete(username) ==
    IF ~DeleteCommits(username) THEN questions
    ELSE [q \in QuestionIds |->
            IF questions[q].exists /\ questions[q].owner_username = username
            THEN [questions[q] EXCEPT !.owner_username = ADMIN_USER]
            ELSE questions[q]]

\* DELETE FROM duels WHERE challenger_username = ? OR opponent_username = ?
DuelsAfterDelete(username) ==
    IF ~DeleteCommits(username) THEN duels
    ELSE {d \in duels : d[1] # username /\ d[2] # username}

\* delete_user_from_db(username), whoever calls it
DeleteUserFromDb(username) ==
    /\ users' = UsersAfterDelete(username)
    /\ progress' = ProgressAfterDelete(username)
    /\ questions' = QuestionsAfterDelete(username)
    /\ duels' = DuelsAfterDelete(username)
    /\ last' = Op("delete", username, 0, "",
                  IF username = ADMIN_USER THEN "refused"
                  ELSE IF DeleteCommits(username) THEN "done" ELSE "error")
    /\ UNCHANGED <<clock, activity_log, deleted_users_log, sessions,
                   grading, question_votes>>

\* show_admin_panel: 'eliminar' confirmed for a listed user
AdminDelete(username) ==
    /\ ADMIN_USER \in sessions
    /\ username \in UsuariosActivos
    /\ users' = UsersAfterDelete(username)
    /\ progress' = ProgressAfterDelete(username)
    /\ questions' = QuestionsAfterDelete(username)
    /\ last' = Op("delete", username, 0, "",
                  IF DeleteCommits(username) THEN "done" ELSE "error")
    /\ duels' = DuelsAfterDelete(username)
    /\ UNCHANGED <<clock, activity_log, deleted_users_log, sessions,
                   grading, question_votes>>

\* show_admin_panel: "Sí, ejecutar" in the Zona de Juicio
AdminExecute(username) ==
    /\ ADMIN_USER \in sessions
    /\ users[username].exists
    /\ users[username].status = "pending_delete"
    /\ deleted_users_log' = Append(deleted_users_log,
            [username |-> username,
             score |-> CalculateUserScore(username,
                            users[username].max_inactivity_days).score])
    /\ users' = UsersAfterDelete(username)
    /\ progress' = ProgressAfterDelete(username)
    /\ questions' = QuestionsAfterDelete(username)
    /\ last' = Op("execute", username, 0, "",
                  IF DeleteCommits(username) THEN "done" ELSE "error")
    /\ duels' = DuelsAfterDelete(username)
    /\ UNCHANGED <<clock, activity_log, sessions, grading, question_votes>>

\* the wall clock, one tick later the same day
AdvanceTick ==
    /\ clock + 1 - Midnight(Today) <= MaxSlot
    /\ clock' = clock + 1
    /\ last' = Op("tick", "", 0, "", "done")
    /\ UNCHANGED <<duels, users, questions, progress, activity_log,
                   deleted_users_log, sessions, grading, question_votes>>

\* the wall clock at the next midnight
AdvanceDay ==
    /\ Today < MaxDay
    /\ clock' = Midnight(Today + 1)
    /\ last' = Op("day", "", 0, "", "done")
    /\ UNCHANGED <<duels, users, questions, progress, activity_log,
                   deleted_users_log, sessions, grading, question_votes>>

(* --------------------------- specifications ---------------------------- *)

Reviews(username, q) ==
    IF progress[<<username, q>>].exists
    THEN progress[<<username, q>>].aciertos + progress[<<username, q>>].fallos
    ELSE 0

Question(owner, tag_tema, status) ==
    [exists |-> TRUE, owner_username |-> owner, tag_tema |-> tag_tema,
     status |-> status, karma |-> 0]

\* the database after setup_database, the users of Registered registered and
\* approved, and two questions created, the second with status st (sent to
\* revision by its votes, or not)
InitTables(Registered, st) ==
    /\ clock = 0
    /\ users = [u \in Usernames |->
                    IF u = ADMIN_USER THEN NewUserRow("admin", 1)
                    ELSE IF u \in Registered THEN NewUserRow("user", 1)
                    ELSE NoRow]
    /\ questions = [q \in QuestionIds |->
            IF q = 1 THEN Question(ADMIN_USER, "cardio", "active")
            ELSE IF q = 2 THEN Question("u1", "neuro", st)
            ELSE NoRow]
    /\ progress = [k \in Usernames \X QuestionIds |-> NoRow]
    /\ activity_log = <<>>
    /\ deleted_users_log = <<>>
    /\ question_votes = [k \in Usernames \X QuestionIds |-> NoVote]
    /\ duels = {}
    /\ grading = [tab \in Tabs |-> NotGrading]
    /\ last = Op("init", "", 0, "", "")

(* The scheduler: two students grade, create and ask for the next question *)
(* while the days pass.                                                    *)
SchedInit ==
    /\ \E st \in {"active", "needs_revision"} : InitTables({"u1", "u2"}, st)
    /\ sessions = {"u1", "u2"}

SchedNext ==
    \/ \E u \in Usernames, q \in QuestionIds, r \in Ratings :
          /\ Reviews(u, q) < MaxReviews
          /\ Len(activity_log) + 2 <= MaxNewEvents
          /\ HandleSrsUpdate(u, q, r)
    \/ \E u \in Usernames :
          /\ Len(activity_log) < MaxNewEvents
          /\ ShowCreatePage(u, "cardio")
    \/ \E u \in Usernames : ShowEvaluationPage(u)
    \/ AdvanceDay

SchedSpec == SchedInit /\ [][SchedNext]_vars

(* The drill: one student grades the same question again and again.        *)
DrillInit == InitTables({"u1"}, "active") /\ sessions = {"u1"}

DrillNext ==
    \E r \in RatingInputs :
        /\ Reviews("u1", 1) < MaxDrill
        /\ HandleSrsUpdate("u1", 1, r)

DrillSpec == DrillInit /\ [][DrillNext]_vars

(* The lifecycle: one student under the administrator's eye.  The student  *)
(* logs in, studies and creates; the administrator configures intensive    *)
(* mode, pardons, deletes and approves; the account can be registered anew. *)
QuotaChoices == {1, 2}

LifeInit == InitTables({"u1"}, "active") /\ sessions = {ADMIN_USER}

LifeNext ==
    \/ ShowLoginPage("u1", TRUE)
    \/ RegisterUser("u1")
    \/ \E a \in {0, 1} : AdminSetApproval("u1", a)
    \/ \E a \in {0, 1}, d \in QuotaChoices : AdminSaveIntensive("u1", a, d)
    \/ AdminPardon("u1") /\ Len(activity_log) < MaxNewEvents
    \/ AdminDelete("u1")
    \/ AdminExecute("u1")
    \/ /\ Reviews("u1", 1) < MaxReviews
       /\ Len(activity_log) + 2 <= MaxNewEvents
       /\ HandleSrsUpdate("u1", 1, "medio")
    \/ Len(activity_log) < MaxNewEvents /\ ShowCreatePage("u1", "cardio")
    \/ AdvanceDay

LifeSpec == LifeInit /\ [][LifeNext]_vars

(* The quota: an intensive student whose log already holds a day's work.   *)
(* Every graded review leaves two events (answer_submitted, answer), every *)
(* created question one (create); that work was done on questions other   *)
(* than those of QuestionIds, whose rows are left out.                     *)

\* <<graded reviews, questions created>> of the work already done
Histories == {<<0, 0>>, <<5, 5>>, <<14, 0>>, <<9, 6>>, <<0, 15>>}

HistoryLog(username, reviews, creates) ==
    [i \in 1..(2 * reviews + creates) |->
        IF i > 2 * reviews THEN Event(username, "create")
        ELSE IF i % 2 = 1 THEN Event(username, "answer_submitted")
        ELSE Event(username, "answer")]

Pardons == Cardinality({i \in 1..Len(activity_log) :
                            activity_log[i].action_type = "pardoned"})

QuotaInit ==
    /\ clock \in 0..MaxSlot
    /\ \E h \in Histories, d \in QuotaChoices :
          /\ activity_log = HistoryLog("u1", h[1], h[2])
          /\ users = [u \in Usernames |->
                IF u = ADMIN_USER THEN NewUserRow("admin", 1)
                ELSE IF u = "u1"
                THEN LET row == [NewUserRow("user", 1) EXCEPT
                                    !.is_intensive = 1,
                                    !.max_inactivity_days = d,
                                    !.intensive_start_date = 0]
                     IN  IF h = <<0, 0>> THEN row
                         ELSE [row EXCEPT !.last_active_date = 0,
                                          !.current_streak = 1,
                                          !.total_active_days = 1]
                ELSE NoRow]
    /\ questions = [q \in QuestionIds |->
            IF q = 1 THEN Question(ADMIN_USER, "cardio", "active") ELSE NoRow]
    /\ progress = [k \in Usernames \X QuestionIds |-> NoRow]
    /\ deleted_users_log = <<>>
    /\ sessions = {ADMIN_USER, "u1"}
    /\ question_votes = [k \in Usernames \X QuestionIds |-> NoVote]
    /\ duels = {}
    /\ grading = [tab \in Tabs |-> NotGrading]
    /\ last = Op("init", "", 0, "", "")

QuotaNext ==
    \/ ShowLoginPage("u1", TRUE)
    \/ Pardons < MaxPardons /\ AdminPardon("u1")
    \/ ~progress[<<"u1", 1>>].exists /\ HandleSrsUpdate("u1", 1, "medio")
    \/ questions[2] = NoRow /\ ShowCreatePage("u1", "cardio")
    \/ AdvanceTick
    \/ AdvanceDay

QuotaSpec == QuotaInit /\ [][QuotaNext]_vars

(* The legacy row: a student made intensive before the column             *)
(* intensive_start_date was added, so the column holds NULL.  The          *)
(* administrator only changes the days of the quota.                       *)
LegacyInit ==
    /\ clock \in 0..MaxSlot
    /\ \E h \in {<<0, 0>>, <<5, 5>>}, d \in QuotaChoices, a \in {0, 1} :
          /\ activity_log = HistoryLog("u1", h[1], h[2])
          /\ users = [u \in Usernames |->
                IF u = ADMIN_USER THEN NewUserRow("admin", 1)
                ELSE IF u = "u1"
                THEN [NewUserRow("user", a) EXCEPT
                          !.is_intensive = 1, !.max_inactivity_days = d]
                ELSE NoRow]
    /\ questions = [q \in QuestionIds |->
            IF q = 1 THEN Question(ADMIN_USER, "cardio", "active") ELSE NoRow]
    /\ progress = [k \in Usernames \X QuestionIds |-> NoRow]
    /\ deleted_users_log = <<>>
    /\ sessions = {ADMIN_USER}
    /\ question_votes = [k \in Usernames \X QuestionIds |-> NoVote]
    /\ duels = {}
    /\ grading = [tab \in Tabs |-> NotGrading]
    /\ last = Op("init", "", 0, "", "")

LegacyNext ==
    \/ ShowLoginPage("u1", TRUE)
    \/ \E d \in QuotaChoices : AdminSaveIntensive("u1", 1, d)
    \/ Pardons < MaxPardons /\ AdminPardon("u1")
    \/ ~progress[<<"u1", 1>>].exists /\ HandleSrsUpdate("u1", 1, "facil")
    \/ AdvanceTick
    \/ AdvanceDay

LegacySpec == LegacyInit /\ [][LegacyNext]_vars

(* The race: one student logged in from two tabs, both showing the card   *)
(* of question 1; the record may hold a review made before.  Each tab      *)
(* presses one rating button.                                              *)
RaceInit == InitTables({"u1"}, "active") /\ sessions = {"u1"}

RaceNext ==
    \/ \E r \in Ratings :
          /\ \A tab \in Tabs : grading[tab].pc = "idle"
          /\ ~progress[<<"u1", 1>>].exists
          /\ HandleSrsUpdate("u1", 1, r)
    \/ \E tab \in Tabs, r \in Ratings : HandleSrsUpdateBegin(tab, "u1", 1, r)
    \/ \E tab \in Tabs : UpdateSrsSelectState(tab, "u1", 1)
    \/ \E tab \in Tabs : UpdateSrsSelectCounters(tab, "u1", 1)
    \/ \E tab \in Tabs : UpdateSrsUpsert(tab, "u1", 1)

RaceSpec == RaceInit /\ [][RaceNext]_vars

(* The score: two students work while the days pass; the administrator    *)
(* switches intensive mode of the first on and off, and pardons him when a *)
(* login has left him pending_delete.  The first student's row is a new    *)
(* one or one made intensive before intensive_start_date existed.          *)
ScoreInit ==
    /\ clock = 0
    /\ \E legacy \in {0, 1} :
          users = [u \in Usernames |->
                    IF u = ADMIN_USER THEN NewUserRow("admin", 1)
                    ELSE IF u = "u1"
                    THEN [NewUserRow("user", 1) EXCEPT !.is_intensive = legacy]
                    ELSE NewUserRow("user", 1)]
    /\ questions = [q \in QuestionIds |->
            IF q = 1 THEN Question(ADMIN_USER, "cardio", "active")
            ELSE IF q = 2 THEN Question("u1", "neuro", "active")
            ELSE NoRow]
    /\ progress = [k \in Usernames \X QuestionIds |-> NoRow]
    /\ activity_log = <<>>
    /\ deleted_users_log = <<>>
    /\ sessions = {ADMIN_USER, "u1", "u2"}
    /\ question_votes = [k \in Usernames \X QuestionIds |-> NoVote]
    /\ duels = {}
    /\ grading = [tab \in Tabs |-> NotGrading]
    /\ last = Op("init", "", 0, "", "")

ScoreNext ==
    \/ \E u \in {"u1", "u2"} :
          ~progress[<<u, 1>>].exists /\ HandleSrsUpdate(u, 1, "medio")
    \/ ShowCreatePage("u1", "cardio")
    \/ \E a \in {0, 1}, d \in QuotaChoices : AdminSaveIntensive("u1", a, d)
    \/ ShowLoginPage("u1", TRUE)
    \/ Pardons < MaxPardons /\ AdminPardon("u1")
    \/ AdvanceDay

ScoreSpec == ScoreInit /\ [][ScoreNext]_vars

(* The damaged row: the column intensive_start_date of a student holds a *)
(* text that is not a date (the column is TEXT without a CHECK, and the    *)
(* file is open to other tools).  The student was logged in before; the    *)
(* administrator can switch intensive mode off and on, which rewrites the  *)
(* column.                                                                 *)
CorruptInit ==
    /\ clock \in 0..MaxSlot
    /\ \E h \in Histories, d \in QuotaChoices, a \in {0, 1} :
          /\ activity_log = HistoryLog("u1", h[1], h[2])
          /\ users = [u \in Usernames |->
                IF u = ADMIN_USER THEN NewUserRow("admin", 1)
                ELSE IF u = "u1"
                THEN [NewUserRow("user", 1) EXCEPT
                          !.is_intensive = a,
                          !.max_inactivity_days = d,
                          !.intensive_start_date = Unparseable]
                ELSE NoRow]
    /\ questions = [q \in QuestionIds |->
            IF q = 1 THEN Question(ADMIN_USER, "cardio", "active") ELSE NoRow]
    /\ progress = [k \in Usernames \X QuestionIds |-> NoRow]
    /\ deleted_users_log = <<>>
    /\ sessions = {ADMIN_USER, "u1"}
    /\ question_votes = [k \in Usernames \X QuestionIds |-> NoVote]
    /\ duels = {}
    /\ grading = [tab \in Tabs |-> NotGrading]
    /\ last = Op("init", "", 0, "", "")

CorruptNext ==
    \/ ShowLoginPage("u1", TRUE)
    \/ \E a \in {0, 1}, d \in QuotaChoices : AdminSaveIntensive("u1", a, d)
    \/ ~progress[<<"u1", 1>>].exists /\ HandleSrsUpdate("u1", 1, "medio")
    \/ questions[2] = NoRow /\ ShowCreatePage("u1", "cardio")
    \/ AdvanceTick
    \/ AdvanceDay

CorruptSpec == CorruptInit /\ [][CorruptNext]_vars

(* The queue: one student grades, creates and asks for the next question, *)
(* by the scheduler or by topic, while the days pass; he, a second student *)
(* and the administrator vote the second question down.                    *)
PickInit ==
    /\ \E st \in {"active", "needs_revision"} : InitTables({"u1", "u2"}, st)
    /\ sessions = Usernames

PickNext ==
    \/ \E q \in QuestionIds, r \in {"dificil", "facil"} :
          /\ Reviews("u1", q) < MaxReviews
          /\ Len(activity_log) + 2 <= MaxNewEvents
          /\ HandleSrsUpdate("u1", q, r)
    \/ ShowCreatePage("u1", "neuro")
    \/ \E u \in Usernames : HandleKarmaUpdate(u, 2, -1)
    \/ ShowEvaluationPage("u1")
    \/ \E tag \in Tags : PracticeByTopic("u1", tag)
    \/ AdvanceDay

PickSpec == PickInit /\ [][PickNext]_vars

(* The empty bank: the database holds no question yet.  A student creates *)
(* up to two, studies them and asks for the next one; he, a second student *)
(* and the administrator vote the first one down; the second student only  *)
(* asks for the next question.                                             *)
BarrenInit ==
    /\ clock = 0
    /\ users = [u \in Usernames |->
                    IF u = ADMIN_USER THEN NewUserRow("admin", 1)
                    ELSE NewUserRow("user", 1)]
    /\ questions = [q \in QuestionIds |-> NoRow]
    /\ progress = [k \in Usernames \X QuestionIds |-> NoRow]
    /\ activity_log = <<>>
    /\ deleted_users_log = <<>>
    /\ sessions = Usernames
    /\ question_votes = [k \in Usernames \X QuestionIds |-> NoVote]
    /\ duels = {}
    /\ grading = [tab \in Tabs |-> NotGrading]
    /\ last = Op("init", "", 0, "", "")

BarrenNext ==
    \/ ~questions[2].exists /\ ShowCreatePage("u1", "cardio")
    \/ \E q \in QuestionIds :
          /\ Reviews("u1", q) < MaxReviews
          /\ Len(activity_log) + 2 <= MaxNewEvents
          /\ HandleSrsUpdate("u1", q, "facil")
    \/ \E u \in Usernames : HandleKarmaUpdate(u, 1, -1)
    \/ \E u \in {"u1", "u2"} : ShowEvaluationPage(u)
    \/ AdvanceDay

BarrenSpec == BarrenInit /\ [][BarrenNext]_vars

(* The streak: two students study, or do not, day after day.               *)
EventsToday(username) ==
    Cardinality({i \in EventsOf(username) :
                    DateOf(activity_log[i].timestamp) = Today})

StreakInit == InitTables({"u1", "u2"}, "active") /\ sessions = {"u1", "u2"}

StreakNext ==
    \/ \E u \in {"u1", "u2"} :
          /\ EventsToday(u) + 2 <= MaxEventsPerDay
          /\ HandleSrsUpdate(u, 1, "dificil")
    \/ EventsToday("u1") < MaxEventsPerDay /\ ShowCreatePage("u1", "cardio")
    \/ AdvanceDay

StreakSpec == StreakInit /\ [][StreakNext]_vars

(* The log: everything one student and the administrator can do to the   *)
(* tables, the student voting on the first question as well.               *)
LogInit == InitTables({"u1"}, "active") /\ sessions = {ADMIN_USER}

LogNext ==
    \/ ShowLoginPage("u1", TRUE)
    \/ RegisterUser("u1")
    \/ \E a \in {0, 1} : AdminSaveIntensive("u1", a, 1)
    \/ Pardons < MaxPardons /\ AdminPardon("u1")
    \/ AdminDelete("u1")
    \/ Len(deleted_users_log) < MaxPardons /\ AdminExecute("u1")
    \/ /\ ~progress[<<"u1", 1>>].exists
       /\ Len(activity_log) + 2 <= MaxNewEvents
       /\ HandleSrsUpdate("u1", 1, "medio")
    \/ Len(activity_log) < MaxNewEvents /\ ShowCreatePage("u1", "cardio")
    \/ \E v \in VoteTypes : HandleKarmaUpdate("u1", 1, v)
    \/ AdvanceDay

LogSpec == LogInit /\ [][LogNext]_vars

(* The records: two students study the same questions; the second is in   *)
(* intensive mode with a quota of one day, logs in, and is pardoned when   *)
(* the login has left him pending_delete; the first also creates, votes    *)
(* and asks for the next question.                                         *)
FrameInit ==
    /\ clock = 0
    /\ users = [u \in Usernames |->
                    IF u = ADMIN_USER THEN NewUserRow("admin", 1)
                    ELSE IF u = "u2"
                    THEN [NewUserRow("user", 1) EXCEPT
                              !.is_intensive = 1,
                              !.max_inactivity_days = 1,
                              !.intensive_start_date = 0]
                    ELSE NewUserRow("user", 1)]
    /\ questions = [q \in QuestionIds |->
            IF q = 1 THEN Question(ADMIN_USER, "cardio", "active")
            ELSE IF q = 2 THEN Question("u1", "neuro", "active")
            ELSE NoRow]
    /\ progress = [k \in Usernames \X QuestionIds |-> NoRow]
    /\ activity_log = <<>>
    /\ deleted_users_log = <<>>
    /\ sessions = Usernames
    /\ question_votes = [k \in Usernames \X QuestionIds |-> NoVote]
    /\ duels = {}
    /\ grading = [tab \in Tabs |-> NotGrading]
    /\ last = Op("init", "", 0, "", "")

FrameNext ==
    \/ \E u \in {"u1", "u2"}, q \in {1, 2} :
          /\ Reviews(u, q) < MaxReviews
          /\ Len(activity_log) + 2 <= MaxNewEvents + 2
          /\ HandleSrsUpdate(u, q, "medio")
    \/ Len(activity_log) < MaxNewEvents /\ ShowCreatePage("u1", "cardio")
    \/ HandleKarmaUpdate("u1", 2, -1)
    \/ ShowEvaluationPage("u1")
    \/ ShowLoginPage("u2", TRUE)
    \/ Pardons < MaxPardons /\ AdminPardon("u2")
    \/ AdvanceDay

FrameSpec == FrameInit /\ [][FrameNext]_vars

(* The lockout: a student types right and wrong passwords while the       *)
(* minutes and the days pass; the administrator approves, revokes and      *)
(* configures intensive mode.                                              *)
LockInit == InitTables({"u1"}, "active") /\ sessions = {ADMIN_USER}

LockNext ==
    \/ \E password_ok \in BOOLEAN : ShowLoginPage("u1", password_ok)
    \/ Logout("u1")
    \/ \E a \in {0, 1} : AdminSetApproval("u1", a)
    \/ \E a \in {0, 1} : AdminSaveIntensive("u1", a, 1)
    \/ AdvanceTick
    \/ AdvanceDay

LockSpec == LockInit /\ [][LockNext]_vars

(* The votes: three users vote on two questions, for and against, while   *)
(* one of them asks for the next question and creates a third.             *)
VoteInit == InitTables({"u1", "u2"}, "active") /\ sessions = Usernames

VoteNext ==
    \/ \E u \in Usernames, q \in QuestionIds, v \in VoteTypes :
          HandleKarmaUpdate(u, q, v)
    \/ ShowEvaluationPage("u1")
    \/ ShowCreatePage("u1", "cardio")

VoteSpec == VoteInit /\ [][VoteNext]_vars

(* The purge: delete_user_from_db is called for every username while two  *)
(* students study, vote and create.  The rows of duels were inserted by    *)
(* show_duels_page when the bank held the five questions a duel needs.     *)
DuelPairs ==
    {<<"u1", "u2">>, <<"u2", "u1">>, <<ADMIN_USER, "u1">>, <<ADMIN_USER, "u2">>}

PurgeInit ==
    /\ clock = 0
    /\ users = [u \in Usernames |->
                    IF u = ADMIN_USER THEN NewUserRow("admin", 1)
                    ELSE NewUserRow("user", 1)]
    /\ questions = [q \in QuestionIds |->
            IF q = 1 THEN Question(ADMIN_USER, "cardio", "active")
            ELSE IF q = 2 THEN Question("u1", "neuro", "active")
            ELSE NoRow]
    /\ progress = [k \in Usernames \X QuestionIds |-> NoRow]
    /\ activity_log = <<>>
    /\ deleted_users_log = <<>>
    /\ sessions = Usernames
    /\ question_votes = [k \in Usernames \X QuestionIds |-> NoVote]
    /\ duels \in SUBSET DuelPairs
    /\ grading = [tab \in Tabs |-> NotGrading]
    /\ last = Op("init", "", 0, "", "")

PurgeNext ==
    \/ \E u \in Usernames : DeleteUserFromDb(u)
    \/ \E u \in {"u1", "u2"}, q \in {1, 2} :
          /\ users[u].exists
          /\ ~progress[<<u, q>>].exists
          /\ HandleSrsUpdate(u, q, "medio")
    \/ \E u \in {"u1", "u2"} :
          users[u].exists /\ HandleKarmaUpdate(u, 1, -1)
    \/ users["u2"].exists /\ ShowCreatePage("u2", "cardio")

PurgeSpec == PurgeInit /\ [][PurgeNext]_vars

(* ------------------------------- claims -------------------------------- *)

Rows == {k \in DOMAIN progress : progress[k].exists}

Aciertos(tbl, k) == IF tbl[k].exists THEN tbl[k].aciertos ELSE 0

Fallos(tbl, k) == IF tbl[k].exists THEN tbl[k].fallos ELSE 0

\* C1: every grade call adds exactly one to successes + failures of its
\* (user, item) record, a fail to failures only and any other rating to
\* successes only, and no step ever lowers a counter of any record.
C1_MonotonicCounters ==
    [][ /\ (last'.op = "grade" /\ last'.arg \in Ratings) =>
            LET k == <<last'.user, last'.qid>> IN
            /\ progress'[k].exists
            /\ IF last'.arg = "dificil"
               THEN /\ Fallos(progress', k) = Fallos(progress, k) + 1
                    /\ Aciertos(progress', k) = Aciertos(progress, k)
               ELSE /\ Aciertos(progress', k) = Aciertos(progress, k) + 1
                    /\ Fallos(progress', k) = Fallos(progress, k)
        /\ \A k \in Rows :
            /\ progress'[k].exists
            /\ progress'[k].aciertos >= progress[k].aciertos
            /\ progress'[k].fallos >= progress[k].fallos ]_vars

\* a record graded with each of the three ratings, the last a failure
C1_Witness ==
    /\ last.op = "grade"
    /\ last.arg = "dificil"
    /\ progress[<<last.user, last.qid>>].aciertos >= 2
    /\ progress[<<last.user, last.qid>>].fallos >= 2

\* C2: in every reachable state every stored record has its difficulty
\* between 1.0 and 10.0 (100 and 1000 hundredths).
C2_BoundedDifficulty ==
    \A k \in Rows : progress[k].difficulty >= 100 /\ progress[k].difficulty <= 1000

\* seven failures in a row: 5.0 - 6 * 0.68 = 0.92 is held at 1.0
C2_Witness ==
    /\ progress[<<"u1", 1>>].exists
    /\ progress[<<"u1", 1>>].fallos = 7
    /\ progress[<<"u1", 1>>].difficulty = 100

\* C3: in every reachable state every stored record has interval >= 1,
\* also after failures in a row.
C3_IntervalFloor == \A k \in Rows : progress[k].interval >= 1

\* three failures in a row: round(0.9 * 0.064) = 0 is raised to 1
C3_Witness ==
    /\ progress[<<"u1", 1>>].exists
    /\ progress[<<"u1", 1>>].fallos >= 3
    /\ progress[<<"u1", 1>>].aciertos = 0
    /\ RoundDiv(progress[<<"u1", 1>>].stability * 9, 10 * StabUnit) = 0
    /\ progress[<<"u1", 1>>].interval = 1

\* C4: every stored record has due_date = last_review + interval, and the
\* record a grade call leaves has last_review = the date of the call.
C4_DueDateConsistency ==
    /\ \A k \in Rows :
          progress[k].due_date = progress[k].last_review + progress[k].interval
    /\ last.op = "grade" =>
          /\ progress[<<last.user, last.qid>>].exists
          /\ progress[<<last.user, last.qid>>].last_review = Today

\* a grade on a later day that schedules more than a day ahead
C4_Witness ==
    /\ last.op = "grade"
    /\ Today >= 1
    /\ progress[<<last.user, last.qid>>].interval >= 2
    /\ progress[<<last.user, last.qid>>].due_date = Today + progress[<<last.user, last.qid>>].interval

IsActive(q) == questions[q].exists /\ questions[q].status = "active"

Overdue(u, q) ==
    IsActive(q) /\ progress[<<u, q>>].exists /\ progress[<<u, q>>].due_date <= Today

FutureDated(u, q) ==
    IsActive(q) /\ progress[<<u, q>>].exists /\ progress[<<u, q>>].due_date > Today

HasOverdueAndFuture(u) ==
    (\E q \in QuestionIds : Overdue(u, q)) /\ (\E q \in QuestionIds : FutureDated(u, q))

\* C5: for a user with an active overdue item and an active future-dated
\* item, next_item without a topic returns an overdue item with
\* is_advance = false, whatever the draw.
C5_SelectionPriority ==
    /\ \A u \in Usernames : HasOverdueAndFuture(u) =>
          \A r \in GetNextQuestionForUser(u, FALSE, "") :
              r.found /\ ~r.is_advance /\ Overdue(u, r.id)
    /\ (last.op = "next" /\ HasOverdueAndFuture(last.user)) =>
          last.result = "due" /\ Overdue(last.user, last.qid)

C5_Witness == last.op = "next" /\ HasOverdueAndFuture(last.user)

\* every active item has a record of u, is due later and was reviewed today
AllReviewedToday(u) ==
    /\ \E q \in QuestionIds : IsActive(q)
    /\ \A q \in QuestionIds : IsActive(q) =>
          /\ progress[<<u, q>>].exists
          /\ progress[<<u, q>>].due_date > Today
          /\ progress[<<u, q>>].last_review = Today

\* C6: for a user with no due or new active item and no eligible advance
\* item but some active item, next_item without a topic returns an active
\* item with is_advance = true, never none.
C6_FallbackGuarantee ==
    /\ \A u \in Usernames : AllReviewedToday(u) =>
          \A r \in GetNextQuestionForUser(u, FALSE, "") :
              r.found /\ r.is_advance /\ IsActive(r.id)
    /\ (last.op = "next" /\ AllReviewedToday(last.user)) =>
          last.result = "advance" /\ IsActive(last.qid)

C6_Witness ==
    last.op = "next" /\ AllReviewedToday(last.user) /\ last.result = "advance"

InGrace(row) ==
    /\ row.exists
    /\ row.is_intensive = 1
    /\ row.intensive_start_date # NULL
    /\ Today - row.intensive_start_date < row.max_inactivity_days

\* C7: a login evaluation of an intensive user whose start date is set and
\* who is within the grace period changes neither status nor the start date.
C7_GraceIdempotence ==
    [][ (last'.op = "login" /\ InGrace(users[last'.user])) =>
            /\ users'[last'.user].status = users[last'.user].status
            /\ users'[last'.user].intensive_start_date
                  = users[last'.user].intensive_start_date ]_vars

\* a login passed within the grace period, on a later day than the start
C7_Witness ==
    /\ last.op = "login"
    /\ last.result = "ok"
    /\ InGrace(users[last.user])
    /\ Today > users[last.user].intensive_start_date

IsPending(tbl, u) == tbl[u].exists /\ tbl[u].status = "pending_delete"

\* C8: while a user is pending_delete every login evaluation of that user is
\* rejected and leaves the status; the status stops being pending_delete
\* only by the pardon (or the row is removed).
C8_PendingIsFrozen ==
    [][ \A u \in Usernames : IsPending(users, u) =>
            /\ (last'.op = "login" /\ last'.user = u) =>
                  /\ last'.result \in {"pending", "locked", "bad_password"}
                  /\ IsPending(users', u)
                  /\ sessions' = sessions
            /\ (users'[u].exists /\ ~IsPending(users', u)) => last'.op = "pardon" ]_vars

\* a login of a pending_delete user, rejected
C8_Witness ==
    last.op = "login" /\ last.result = "pending" /\ IsPending(users, last.user)

GraceElapsed(row) ==
    /\ row.exists
    /\ row.is_intensive = 1
    /\ row.intensive_start_date # NULL
    /\ Today - row.intensive_start_date >= row.max_inactivity_days

\* the events of u of the given kinds from the window start on, the window
\* start being max(intensive_start_date, now - quota_window_days)
InWindow(u, kinds) ==
    LET from == Max(Midnight(users[u].intensive_start_date),
                    clock - users[u].max_inactivity_days * TicksPerDay)
    IN  Cardinality({i \in 1..Len(activity_log) :
            /\ activity_log[i].username = u
            /\ activity_log[i].action_type \in kinds
            /\ activity_log[i].timestamp >= from})

ScoreInWindow(u) ==
    InWindow(u, {"answer", "answer_submitted"}) + 2 * InWindow(u, {"create"})

\* no event of u at all, or the latest one more than the quota's days ago
InactiveBeyondQuota(u) ==
    \A i \in 1..Len(activity_log) :
        activity_log[i].username = u =>
            Today - DateOf(activity_log[i].timestamp) > users[u].max_inactivity_days

\* C9: a login evaluation of an active intensive user whose grace period
\* has elapsed sets status = pending_delete and rejects the login exactly
\* when the score over the quota window is below 30 or the inactivity
\* exceeds the quota's days (no event at all counting as infinite);
\* otherwise the status stays active and the login is not denied.
C9_QuotaEnforcement ==
    [][ ( /\ last'.op = "login"
          /\ GraceElapsed(users[last'.user])
          /\ users[last'.user].status = "active"
          /\ last'.result \notin {"locked", "bad_password"} ) =>
        IF ScoreInWindow(last'.user) < 30 \/ InactiveBeyondQuota(last'.user)
        THEN /\ IsPending(users', last'.user)
             /\ last'.result = "quota_denied"
             /\ sessions' = sessions
        ELSE /\ users'[last'.user].status = "active"
             /\ last'.result \in {"ok", "unapproved"} ]_vars

\* a login denied with 10 answer events and 5 create events in the window
C9_Witness ==
    /\ last.op = "login"
    /\ last.result = "quota_denied"
    /\ GraceElapsed(users[last.user])
    /\ InWindow(last.user, {"answer", "answer_submitted"}) = 10
    /\ InWindow(last.user, {"create"}) = 5
    /\ IsPending(users, last.user)

\* C10: a login evaluation of an active intensive user within the grace
\* period never denies the login on lifecycle grounds and leaves the
\* status active, whatever the score and the inactivity.
C10_GraceAllowsLogin ==
    [][ ( /\ last'.op = "login"
          /\ InGrace(users[last'.user])
          /\ users[last'.user].status = "active" ) =>
        /\ last'.result \notin {"quota_denied", "pending"}
        /\ users'[last'.user].status = "active" ]_vars

\* a login passed within the grace period with no activity event at all
C10_Witness ==
    /\ last.op = "login"
    /\ last.result = "ok"
    /\ InGrace(users[last.user])
    /\ \A i \in 1..Len(activity_log) : activity_log[i].username # last.user

\* C11: a login evaluation that an active intensive user with no start
\* date passes (right password, not locked out) sets intensive_start_date
\* to today, leaves the status active and does not deny the login.
C11_FirstLoginStartsGrace ==
    [][ ( /\ last'.op = "login"
          /\ users[last'.user].exists
          /\ users[last'.user].is_intensive = 1
          /\ users[last'.user].status = "active"
          /\ users[last'.user].intensive_start_date = NULL
          /\ last'.result \notin {"locked", "bad_password"} ) =>
        /\ users'[last'.user].intensive_start_date = Today
        /\ users'[last'.user].status = "active"
        /\ last'.result \in {"ok", "unapproved"} ]_vars

\* a first login on a later day, passed with no activity event in the log
C11_Witness ==
    /\ last.op = "login"
    /\ last.result = "ok"
    /\ Today >= 1
    /\ users[last.user].intensive_start_date = Today
    /\ \A i \in 1..Len(activity_log) : activity_log[i].username # last.user
    /\ progress[<<last.user, 1>>] = NoRow

\* C12: a login evaluation of an active user who is not intensive changes
\* neither status nor intensive_start_date and never denies on the quota,
\* whatever the log holds and however much time has passed.
C12_NonIntensiveUntouched ==
    [][ ( /\ last'.op = "login"
          /\ users[last'.user].exists
          /\ users[last'.user].is_intensive = 0
          /\ users[last'.user].status = "active" ) =>
        /\ users'[last'.user].status = "active"
        /\ users'[last'.user].intensive_start_date
              = users[last'.user].intensive_start_date
        /\ last'.result # "quota_denied" ]_vars

\* a login passed on a later day by a user who is not intensive and has no
\* activity event
C12_Witness ==
    /\ last.op = "login"
    /\ last.result = "ok"
    /\ users[last.user].is_intensive = 0
    /\ users[last.user].status = "active"
    /\ Today >= 2
    /\ \A i \in 1..Len(activity_log) : activity_log[i].username # last.user

\* C13: a grade call whose rating is none of the three accepted values is
\* rejected and leaves the progress table, the activity log and the streak
\* fields as they were.
C13_InvalidRatingRejected ==
    [][ (last'.op = "grade" /\ last'.arg \notin Ratings) =>
            /\ last'.result # "done"
            /\ progress' = progress
            /\ activity_log' = activity_log
            /\ users' = users ]_vars

\* a first grade with a rating that is none of the three, stored as "facil"
C13_Witness ==
    /\ last.op = "grade"
    /\ last.arg \notin Ratings
    /\ progress[<<last.user, last.qid>>] =
          SrsRow(NoRow, "facil", Today)
    /\ Len(activity_log) = 2

\* C14: a grade call that names a user or an item that does not exist is
\* reported as not found and writes nothing: no progress record, no
\* activity event, no streak change.
C14_GradeOfMissingWritesNothing ==
    [][ ( /\ last'.op = "grade"
          /\ \/ ~users[last'.user].exists
             \/ ~questions[last'.qid].exists ) =>
            /\ last'.result = "not_found"
            /\ progress' = progress
            /\ activity_log' = activity_log
            /\ users' = users ]_vars

\* a progress record and two events written for a user whose row is gone
C14_Witness ==
    /\ last.op = "grade"
    /\ ~users[last.user].exists
    /\ progress[<<last.user, last.qid>>].exists
    /\ \E i \in 1..Len(activity_log) :
          /\ activity_log[i].username = last.user
          /\ activity_log[i].action_type = "answer"
          /\ activity_log[i].timestamp = clock

ReviewsIn(row) == IF row.exists THEN row.aciertos + row.fallos ELSE 0

\* the record after the call of tab a and then the call of tab b, run one
\* after the other from the row the call of tab a read
OneAfterTheOther(a, b) ==
    SrsRow(SrsRow(grading[a].progress_row, grading[a].difficulty, Today),
           grading[b].difficulty, Today)

\* C15: when the grade calls of two tabs on the same record have both
\* finished, however their reads and writes interleaved, the record is the
\* one that running the two calls one after the other in some order leaves:
\* no update is lost, successes + failures has grown by 2.
C15_ConcurrentGradesSerializable ==
    (\A tab \in Tabs : grading[tab].pc = "done") =>
        \E a, b \in Tabs :
            /\ a # b
            /\ progress[<<"u1", 1>>] = OneAfterTheOther(a, b)
            /\ Reviews("u1", 1) = ReviewsIn(grading[a].progress_row) + 2

\* both calls finished on a new record, and the record counts one review
C15_Witness ==
    /\ \A tab \in Tabs : grading[tab].pc = "done"
    /\ \A tab \in Tabs : ~grading[tab].progress_row.exists
    /\ Reviews("u1", 1) = 1

\* the events of u that count toward the score, whenever logged
Counted(log, u) ==
    Cardinality({i \in 1..Len(log) :
        /\ log[i].username = u
        /\ log[i].action_type \in {"answer", "answer_submitted", "create"}})

\* C16: a graded review appends exactly one activity event that counts
\* toward the score, and raises the score of the user by exactly 1.
C16_OneEventPerReview ==
    [][ \A u \in Usernames : (last'.op = "grade" /\ last'.user = u) =>
            /\ Len(activity_log') = Len(activity_log) + 1
            /\ Counted(activity_log', u) = Counted(activity_log, u) + 1
            /\ (CalculateUserScore(u, DefaultInactivityDays).score)' =
                  CalculateUserScore(u, DefaultInactivityDays).score + 1
      ]_vars

\* the first graded review of a user, after which the score is 2
C16_Witness ==
    /\ last.op = "grade"
    /\ Counted(activity_log, last.user) = 2
    /\ CalculateUserScore(last.user, DefaultInactivityDays).score = 2
    /\ Reviews(last.user, last.qid) = 1

\* window lengths a caller passes: max_inactivity_days of a user, or the
\* default
WindowDays == {1, 2, DefaultInactivityDays}

RECURSIVE CountSince(_, _, _, _)
\* among the first n events of the log, those of u, of one of the kinds,
\* logged at or after from
CountSince(n, u, kinds, from) ==
    IF n = 0 THEN 0
    ELSE CountSince(n - 1, u, kinds, from)
         + (IF /\ activity_log[n].username = u
               /\ activity_log[n].action_type \in kinds
               /\ activity_log[n].timestamp >= from
            THEN 1 ELSE 0)

\* C17: score(user, window_days) returns (score, num_creates, num_answers):
\* num_answers counts the user's answer and answer_submitted events at or
\* after the window start, num_creates the create events at or after it,
\* score = num_answers + 2 * num_creates; other kinds, other users and
\* earlier events contribute nothing.
C17_ScoreCounts ==
    \A u \in Usernames, d \in WindowDays :
        LET r == CalculateUserScore(u, d)
            from == WindowStart(u, d)
            answers == CountSince(Len(activity_log), u,
                                  {"answer", "answer_submitted"}, from)
            creates == CountSince(Len(activity_log), u, {"create"}, from)
        IN  /\ r.num_respuestas = answers
            /\ r.num_creadas = creates
            /\ r.score = answers + 2 * creates

\* the log holds a pardoned event of u1, an event of u2 and an event of u1
\* older than one day, and u1 still scores over the last day
C17_Witness ==
    /\ \E i \in 1..Len(activity_log) :
          /\ activity_log[i].username = "u1"
          /\ activity_log[i].action_type = "pardoned"
          /\ activity_log[i].timestamp >= WindowStart("u1", 1)
    /\ \E i \in 1..Len(activity_log) :
          /\ activity_log[i].username = "u2"
          /\ activity_log[i].timestamp >= WindowStart("u1", 1)
    /\ \E i \in 1..Len(activity_log) :
          /\ activity_log[i].username = "u1"
          /\ activity_log[i].action_type = "answer"
          /\ activity_log[i].timestamp < WindowStart("u1", 1)
    /\ CalculateUserScore("u1", 1).score = 2
    /\ CalculateUserScore("u1", 1).num_creadas = 1

HasStartDate(u) == users[u].exists /\ users[u].intensive_start_date # NULL

\* C18: the window start of score is max(intensive_start_date, now -
\* window_days) for a user with an intensive_start_date and now -
\* window_days for a user without; no event logged before the activation
\* date counts for a user who has one.
C18_WindowStart ==
    \A u \in Usernames, d \in WindowDays :
        LET trailing == clock - d * TicksPerDay IN
        /\ HasStartDate(u) =>
              /\ WindowStart(u, d) =
                    Max(Midnight(users[u].intensive_start_date), trailing)
              /\ CalculateUserScore(u, d).score <=
                    CountSince(Len(activity_log), u,
                               {"answer", "answer_submitted"},
                               Midnight(users[u].intensive_start_date))
                    + 2 * CountSince(Len(activity_log), u, {"create"},
                               Midnight(users[u].intensive_start_date))
        /\ ~HasStartDate(u) => WindowStart(u, d) = trailing

\* u1 was activated a day after grading: the review lies within the last two
\* days and before the activation date, and the score over two days is 0
C18_Witness ==
    /\ HasStartDate("u1")
    /\ users["u1"].intensive_start_date >= 1
    /\ \E i \in 1..Len(activity_log) :
          /\ activity_log[i].username = "u1"
          /\ activity_log[i].action_type = "answer"
          /\ activity_log[i].timestamp >= clock - 2 * TicksPerDay
          /\ DateOf(activity_log[i].timestamp) < users["u1"].intensive_start_date
    /\ CalculateUserScore("u1", 2).score = 0

\* C19: when the stored intensive_start_date of a user cannot be parsed,
\* calculate_user_score does not fail: for every number of days it returns
\* the counts over the plain trailing window that starts at now - days.
HasUnparseableStart(u) ==
    /\ users[u].exists
    /\ users[u].intensive_start_date # NULL
    /\ ~Parseable(users[u].intensive_start_date)

C19_UnparseableStartFallsBack ==
    \A u \in Usernames, d \in WindowDays :
        HasUnparseableStart(u) =>
            LET from == clock - d * TicksPerDay
                answers == CountSince(Len(activity_log), u,
                                      {"answer", "answer_submitted"}, from)
                creates == CountSince(Len(activity_log), u, {"create"}, from)
            IN  /\ WindowStart(u, d) = from
                /\ CalculateUserScore(u, d) =
                        [score |-> answers + 2 * creates,
                         num_creadas |-> creates,
                         num_respuestas |-> answers]

C19_Witness ==
    /\ HasUnparseableStart("u1")
    /\ CalculateUserScore("u1", 1).score = 4
    /\ CalculateUserScore("u1", 2).score > QuotaPoints

\* C20: when the stored intensive_start_date of an intensive user cannot
\* be parsed, the login with the right password still completes with the
\* outcome of the standard rule: denied (pending_delete) when the score of
\* the window is below the quota or the user is inactive, let through to
\* the approval test otherwise; it neither aborts nor passes unexamined.
C20_UnparseableLoginCompletes ==
    [][\A u \in Usernames :
          (/\ last'.op = "login" /\ last'.user = u
           /\ last'.result \notin {"no_user", "locked", "bad_password"}
           /\ users[u].is_intensive = 1
           /\ users[u].status # "pending_delete"
           /\ HasUnparseableStart(u))
          => /\ last'.result =
                    IF QuotaMissed(u, users[u].max_inactivity_days)
                    THEN "quota_denied"
                    ELSE IF users[u].is_approved = 1 THEN "ok"
                    ELSE "unapproved"
             /\ users'[u].status =
                    IF QuotaMissed(u, users[u].max_inactivity_days)
                    THEN "pending_delete" ELSE users[u].status]_vars

C20_Witness ==
    /\ last.op = "login"
    /\ last.result = "error"
    /\ users[last.user].is_intensive = 1
    /\ HasUnparseableStart(last.user)
    /\ CalculateUserScore(last.user,
                          users[last.user].max_inactivity_days).score
            >= QuotaPoints

\* what st.session_state.selected_tag can hold ("" when the key is not set)
TopicInputs == Tags \cup {""}

\* the record of u for q says q is due, but q is not active
DueButInactive(u, q) ==
    /\ questions[q].exists
    /\ questions[q].status # "active"
    /\ progress[<<u, q>>].exists
    /\ progress[<<u, q>>].due_date <= Today

\* C21: next_item never returns an item whose status is not active, in any
\* tier and in the topic mode, whatever the user's record for the item.
C21_OnlyActiveReturned ==
    /\ \A u \in Usernames, practice_mode \in BOOLEAN, tag \in TopicInputs :
          \A r \in GetNextQuestionForUser(u, practice_mode, tag) :
              r.found => IsActive(r.id)
    /\ (last.op \in {"next", "next_topic"} /\ last.result # "none") =>
          IsActive(last.qid)

\* the question voted into revision was due for the user, another is shown
C21_Witness ==
    /\ last.op = "next"
    /\ last.result = "due"
    /\ question_votes[<<"u2", 2>>] = -1
    /\ DueButInactive(last.user, 2)
    /\ last.qid # 2

OverdueOf(u) == {q \in QuestionIds : Overdue(u, q)}

\* C22: when a user has an active overdue item, next_item without a topic
\* returns the overdue item with the oldest due_date, with is_advance =
\* false; an item the user never reviewed is returned, with is_advance =
\* false, only when the user has no active item due today or earlier.
C22_OverdueBeforeNew ==
    \A u \in Usernames :
        \A r \in GetNextQuestionForUser(u, FALSE, "") :
            /\ OverdueOf(u) # {} =>
                  /\ r.found /\ ~r.is_advance
                  /\ r.id \in OverdueOf(u)
                  /\ \A q \in OverdueOf(u) :
                        progress[<<u, r.id>>].due_date
                            <= progress[<<u, q>>].due_date
            /\ (r.found /\ ~progress[<<u, r.id>>].exists) =>
                  OverdueOf(u) = {} /\ ~r.is_advance

\* two overdue items with different due dates and an item never reviewed:
\* the older one was shown
C22_Witness ==
    /\ last.op = "next"
    /\ last.result = "due"
    /\ \E q \in OverdueOf(last.user) :
          progress[<<last.user, q>>].due_date
              > progress[<<last.user, last.qid>>].due_date
    /\ \E q \in QuestionIds : IsActive(q) /\ ~progress[<<last.user, q>>].exists

\* active items of u due later and not reviewed today
AdvanceEligible(u) ==
    {q \in QuestionIds :
        FutureDated(u, q) /\ progress[<<u, q>>].last_review # Today}

NoDueOrNew(u) ==
    \A q \in QuestionIds :
        IsActive(q) => progress[<<u, q>>].exists /\ ~Overdue(u, q)

\* C23: when the user has no due or new active item, next_item returns with
\* is_advance = true the active item with the soonest due_date > today
\* among those whose last_review is not today; the advance tier never
\* yields an item already reviewed today.
C23_AdvanceSoonestNotToday ==
    \A u \in Usernames :
        /\ (NoDueOrNew(u) /\ AdvanceEligible(u) # {}) =>
              \A r \in GetNextQuestionForUser(u, FALSE, "") :
                  /\ r.found /\ r.is_advance
                  /\ r.id \in AdvanceEligible(u)
                  /\ \A q \in AdvanceEligible(u) :
                        progress[<<u, r.id>>].due_date
                            <= progress[<<u, q>>].due_date
        /\ \A q \in AdvancePick(u, Today) :
              /\ IsActive(q)
              /\ progress[<<u, q>>].due_date > Today
              /\ progress[<<u, q>>].last_review # Today

\* the item due soonest was reviewed today: the one due after it is shown
C23_Witness ==
    /\ last.op = "next"
    /\ last.result = "advance"
    /\ NoDueOrNew(last.user)
    /\ last.qid \in AdvanceEligible(last.user)
    /\ \E q \in QuestionIds :
          /\ FutureDated(last.user, q)
          /\ progress[<<last.user, q>>].last_review = Today
          /\ progress[<<last.user, q>>].due_date
                < progress[<<last.user, last.qid>>].due_date

ActiveOfTopic(tag) ==
    {q \in QuestionIds : IsActive(q) /\ questions[q].tag_tema = tag}

\* C24: with a topic filter next_item returns only an active item of that
\* topic, always with is_advance = false, and none when the topic has no
\* active item even if other topics have; the records of the user play no
\* part.
C24_TopicOnly ==
    /\ \A u \in Usernames, tag \in Tags :
          GetNextQuestionForUser(u, TRUE, tag) =
              IF ActiveOfTopic(tag) = {} THEN {NoQuestion}
              ELSE {Found(q, FALSE) : q \in ActiveOfTopic(tag)}
    /\ last.op = "next_topic" =>
          IF ActiveOfTopic(last.arg) = {} THEN last.result = "none"
          ELSE last.result = "due" /\ last.qid \in ActiveOfTopic(last.arg)

\* the topic's only question is in revision while another topic has an
\* active one: nothing is shown
C24_Witness ==
    /\ last.op = "next_topic"
    /\ last.result = "none"
    /\ \E q \in QuestionIds :
          questions[q].exists /\ questions[q].tag_tema = last.arg
    /\ \E q \in QuestionIds : IsActive(q)

\* C25: without a topic filter next_item returns none if and only if no
\* active item exists; with at least one active item it returns an item,
\* for every user and every combination of records.
C25_NoneIffNoActiveItem ==
    /\ \A u \in Usernames :
          \A r \in GetNextQuestionForUser(u, FALSE, "") :
              /\ ~r.found <=> (\A q \in QuestionIds : ~IsActive(q))
              /\ r.found => IsActive(r.id)
    /\ last.op = "next" =>
          (last.result = "none" <=> \A q \in QuestionIds : ~IsActive(q))

\* the only question there is went to revision: nothing to study
C25_Witness ==
    /\ last.op = "next"
    /\ last.result = "none"
    /\ \E q \in QuestionIds : questions[q].exists
    /\ progress[<<last.user, 1>>].exists

\* handlers that call update_user_activity
StudyOps == {"grade", "create"}

StreakFields(row) ==
    <<row.last_active_date, row.current_streak, row.total_active_days>>

\* C26: the streak tracker is idempotent within a day: when
\* last_active_date is already today, a further graded review or created
\* question changes none of current_streak, total_active_days,
\* last_active_date; total_active_days never exceeds the number of days
\* the account has seen.
C26_StreakIdempotentInDay ==
    [][\A u \in Usernames :
          /\ (/\ last'.op \in StudyOps /\ last'.user = u
              /\ users[u].exists
              /\ users[u].last_active_date = Today)
             => StreakFields(users'[u]) = StreakFields(users[u])
          /\ users'[u].exists =>
                users'[u].total_active_days <= Today' + 1]_vars

\* a second and a third study action on the second day of a streak
C26_Witness ==
    /\ last.op \in StudyOps
    /\ users[last.user].last_active_date = Today
    /\ users[last.user].total_active_days = 2
    /\ users[last.user].current_streak = 2
    /\ Cardinality({i \in 1..Len(activity_log) :
            /\ activity_log[i].username = last.user
            /\ DateOf(activity_log[i].timestamp) = Today}) >= 3

\* C27: the first study action of a day sets last_active_date to today and
\* adds one to total_active_days; current_streak becomes current_streak + 1
\* when last_active_date was yesterday and 1 otherwise (a gap of two or
\* more days, or no activity before).
C27_FirstActionOfDay ==
    [][\A u \in Usernames :
          (/\ last'.op \in StudyOps /\ last'.user = u
           /\ users[u].exists
           /\ users[u].last_active_date # Today)
          => /\ users'[u].last_active_date = Today
             /\ users'[u].total_active_days = users[u].total_active_days + 1
             /\ users'[u].current_streak =
                   IF /\ users[u].last_active_date # NULL
                      /\ users[u].last_active_date = Today - 1
                   THEN users[u].current_streak + 1
                   ELSE 1]_vars

\* back after a day off: the third day counts, the streak starts again
C27_Witness ==
    /\ last.op \in StudyOps
    /\ Today = 2
    /\ users[last.user].last_active_date = Today
    /\ users[last.user].total_active_days = 2
    /\ users[last.user].current_streak = 1
    /\ \E u \in Usernames :
          users[u].exists /\ users[u].current_streak = 3

\* C28: the pardon of a pending_delete user sets status to active, appends
\* exactly one event of kind pardoned, and leaves is_intensive,
\* max_inactivity_days and intensive_start_date (every other column) as
\* they were; the score of no user over any window changes.
C28_PardonFrame ==
    [][\A u \in Usernames :
          (last'.op = "pardon" /\ last'.user = u)
          => /\ users[u].status = "pending_delete"
             /\ users' = [users EXCEPT ![u].status = "active"]
             /\ activity_log' = Append(activity_log,
                    [username |-> u, action_type |-> "pardoned",
                     timestamp |-> clock])
             /\ \A v \in Usernames, d \in WindowDays :
                    (CalculateUserScore(v, d))' = CalculateUserScore(v, d)
       ]_vars

\* pardoned on a later day than the activation, the score still short
C28_Witness ==
    /\ last.op = "pardon"
    /\ users[last.user].status = "active"
    /\ users[last.user].is_intensive = 1
    /\ users[last.user].intensive_start_date # NULL
    /\ users[last.user].intensive_start_date < Today
    /\ CalculateUserScore(last.user,
                          users[last.user].max_inactivity_days).score > 0
    /\ CalculateUserScore(last.user,
                          users[last.user].max_inactivity_days).score
            < QuotaPoints

\* C29: intensive_start_date is set when intensive mode is activated and
\* cleared when it is deactivated; in every reachable state a user with
\* is_intensive = 0 has no intensive_start_date.
C29_StartDateOnlyWhileIntensive ==
    /\ [](\A u \in Usernames :
            (users[u].exists /\ users[u].is_intensive = 0)
                => users[u].intensive_start_date = NULL)
    /\ [][\A u \in Usernames :
            (users[u].exists /\ users'[u].exists) =>
                /\ (users[u].is_intensive = 0 /\ users'[u].is_intensive = 1)
                      => users'[u].intensive_start_date = Today
                /\ (users[u].is_intensive = 1 /\ users'[u].is_intensive = 0)
                      => users'[u].intensive_start_date = NULL
       ]_vars

\* switched off after a login and a pardon had passed over the start date
C29_Witness ==
    /\ last.op = "configure"
    /\ users[last.user].is_intensive = 0
    /\ users[last.user].intensive_start_date = NULL
    /\ Pardons >= 1
    /\ Today >= 1

\* handlers that run delete_user_from_db
DeletionOps == {"delete", "execute"}

\* C30: the activity log is append-only: no operation other than account
\* deletion (grade, creation, login, pardon, configuration, vote, ...)
\* removes or changes an existing event; the log only grows at its end.
C30_LogAppendOnly ==
    [][last'.op \notin DeletionOps =>
          /\ Len(activity_log') >= Len(activity_log)
          /\ SubSeq(activity_log', 1, Len(activity_log)) = activity_log
       ]_vars

\* a log that grew by study, a pardon and the work of a second account of
\* the same name, with a vote cast
C30_Witness ==
    /\ Len(activity_log) >= MaxNewEvents
    /\ Pardons >= 1
    /\ \E i \in 1..Len(activity_log) : activity_log[i].action_type = "create"
    /\ \E i \in 1..Len(activity_log) : activity_log[i].action_type = "answer"
    /\ question_votes[<<"u1", 1>>] # NoVote
    /\ last.op = "pardon"

\* C31: progress records are written only by a grade: a grade for
\* (user, item) creates or changes the record of that pair and leaves every
\* other record as it was; asking for the next question, a login, a created
\* question, a vote and a pardon leave every record as it was; a record
\* exists only for a pair that has been graded.
C31_RecordsWrittenOnlyByGrade ==
    /\ [](\A k \in Rows : progress[k].aciertos + progress[k].fallos >= 1)
    /\ [][IF last'.op = "grade"
          THEN /\ progress'[<<last'.user, last'.qid>>].exists
               /\ progress'[<<last'.user, last'.qid>>]
                      # progress[<<last'.user, last'.qid>>]
               /\ \A k \in DOMAIN progress :
                      k # <<last'.user, last'.qid>> =>
                          progress'[k] = progress[k]
          ELSE last'.op \notin DeletionOps => progress' = progress
       ]_vars

\* a grade beside the record of another pair, after a login, a pardon and
\* a vote
C31_Witness ==
    /\ last.op = "grade"
    /\ Cardinality(Rows) >= 2
    /\ Pardons >= 1
    /\ question_votes[<<"u1", 2>>] = -1

\* x held between lo and hi
Clamp(lo, hi, x) == IF x < lo THEN lo ELSE IF x > hi THEN hi ELSE x

\* C32: a fail on an existing record gives stability = 0.4 * the previous
\* stability (to the nearest unit) and difficulty = the previous difficulty
\* less 0.68 held between 1.0 and 10.0, adds one to failures and leaves
\* successes; on a record with stability 5.0 and difficulty 5.0 it gives
\* stability 2.0, difficulty 4.32 and interval 2.
C32_FailOnExistingRecord ==
    [][ \A k \in Rows :
          (last'.op = "grade" /\ last'.arg = "dificil"
              /\ k = <<last'.user, last'.qid>>) =>
            /\ 10 * progress'[k].stability - 4 * progress[k].stability <= 5
            /\ 4 * progress[k].stability - 10 * progress'[k].stability <= 5
            /\ progress'[k].difficulty =
                   Clamp(100, 1000, progress[k].difficulty - 68)
            /\ progress'[k].fallos = progress[k].fallos + 1
            /\ progress'[k].aciertos = progress[k].aciertos
            /\ (progress[k].stability = 5 * StabUnit
                    /\ progress[k].difficulty = 500) =>
                 /\ progress'[k].stability = 2 * StabUnit
                 /\ progress'[k].difficulty = 432
                 /\ progress'[k].interval = 2 ]_vars

\* the scenario: a first "facil" leaves 5.0 / 5.0, the fail that follows
\* leaves 2.0 / 4.32 / 2
C32_Witness ==
    /\ last.op = "grade"
    /\ last.arg = "dificil"
    /\ progress[<<"u1", 1>>].exists
    /\ progress[<<"u1", 1>>].aciertos = 1
    /\ progress[<<"u1", 1>>].fallos = 1
    /\ progress[<<"u1", 1>>].stability = 2 * StabUnit
    /\ progress[<<"u1", 1>>].difficulty = 432
    /\ progress[<<"u1", 1>>].interval = 2

\* C33: the first grade of a pair with no record leaves difficulty 5.0,
\* stability 0.4 for a fail, 2.0 for "medio" and 5.0 for "facil", interval
\* max(1, round(0.9 * stability)), which is 1, 2 and 4 or 5, and counters
\* (successes, failures) = (0, 1) for a fail and (1, 0) otherwise.
C33_FirstGrade ==
    [][ \A k \in DOMAIN progress :
          (last'.op = "grade" /\ last'.arg \in Ratings
              /\ k = <<last'.user, last'.qid>> /\ ~progress[k].exists) =>
            /\ progress'[k].exists
            /\ progress'[k].difficulty = 500
            /\ IF last'.arg = "dificil"
               THEN /\ 10 * progress'[k].stability = 4 * StabUnit
                    /\ progress'[k].interval = 1
                    /\ progress'[k].aciertos = 0
                    /\ progress'[k].fallos = 1
               ELSE IF last'.arg = "medio"
               THEN /\ progress'[k].stability = 2 * StabUnit
                    /\ progress'[k].interval = 2
                    /\ progress'[k].aciertos = 1
                    /\ progress'[k].fallos = 0
               ELSE /\ progress'[k].stability = 5 * StabUnit
                    /\ progress'[k].interval \in {4, 5}
                    /\ progress'[k].aciertos = 1
                    /\ progress'[k].fallos = 0 ]_vars

\* a first grade "facil": 0.9 * 5.0 = 4.5 is rounded to the even 4
C33_Witness ==
    /\ last.op = "grade"
    /\ last.arg = "facil"
    /\ progress[<<"u1", 1>>].exists
    /\ progress[<<"u1", 1>>].aciertos + progress[<<"u1", 1>>].fallos = 1
    /\ progress[<<"u1", 1>>].stability = 5 * StabUnit
    /\ progress[<<"u1", 1>>].interval = 4

\* C40: on a pair that already has a record, a grade other than a fail
\* makes the stability strictly larger and never lowers the interval, and a
\* fail makes the stability smaller and never raises the interval.
C40_IntervalFollowsLastGrade ==
    [][ \A k \in Rows :
          (last'.op = "grade" /\ k = <<last'.user, last'.qid>>) =>
            IF last'.arg = "dificil"
            THEN /\ progress'[k].stability < progress[k].stability
                 /\ progress'[k].interval <= progress[k].interval
            ELSE /\ progress'[k].stability > progress[k].stability
                 /\ progress'[k].interval >= progress[k].interval ]_vars

\* two successes took the interval to 9 days, the fail that follows takes
\* it back to 4
C40_Witness ==
    /\ last.op = "grade"
    /\ last.arg = "dificil"
    /\ progress[<<"u1", 1>>].exists
    /\ progress[<<"u1", 1>>].aciertos = 2
    /\ progress[<<"u1", 1>>].fallos = 1
    /\ progress[<<"u1", 1>>].interval = 4
    /\ progress[<<"u1", 1>>].stability > 4 * StabUnit

\* the lockout window of a users row is open at the present time
LockWindowOpen(u) ==
    /\ users[u].exists
    /\ users[u].lockout_until # NULL
    /\ users[u].lockout_until > clock

\* C34: the wrong password that follows four wrong ones in a row locks the
\* account until 15 minutes later; every login attempt while the window is
\* open is rejected, the right password included, and leaves the users row
\* and the sessions as they were; once the window has passed the right
\* password is verified again and takes the lock away.
C34_LockoutWindow ==
    [][ \A u \in Usernames :
          (last'.op = "login" /\ last'.user = u /\ users[u].exists) =>
            /\ (~LockWindowOpen(u) /\ last'.arg = "wrong"
                    /\ users[u].failed_attempts = MaxFailedAttempts - 1) =>
                 /\ users'[u].lockout_until # NULL
                 /\ (users'[u].lockout_until - clock) * 24 * 60
                        = LockoutMinutes * TicksPerDay
            /\ LockWindowOpen(u) =>
                 /\ last'.result = "locked"
                 /\ users' = users
                 /\ sessions' = sessions
            /\ (~LockWindowOpen(u) /\ last'.arg = "right") =>
                 /\ last'.result \notin {"locked", "bad_password"}
                 /\ users'[u].lockout_until = NULL
                 /\ (users[u].status = "active" /\ users[u].is_intensive = 0
                         /\ users[u].is_approved = 1) => u \in sessions'
      ]_vars

\* the right password typed while the window is open
C34_Witness ==
    /\ last.op = "login"
    /\ last.arg = "right"
    /\ last.result = "locked"
    /\ LockWindowOpen(last.user)

\* C35: the stored failed_attempts of every user is between 0 and 4; a wrong
\* password on an account that is not locked adds one to it or, when that
\* makes 5, stores 0 and sets lockout_until; a right password on an account
\* that is not locked stores 0 and clears lockout_until, whatever the login
\* ends with.
C35_FailedAttemptsBounded ==
    /\ [](\A u \in Usernames : users[u].exists =>
              users[u].failed_attempts \in 0..(MaxFailedAttempts - 1))
    /\ [][ \A u \in Usernames :
             (last'.op = "login" /\ last'.user = u /\ users[u].exists
                 /\ ~LockWindowOpen(u)) =>
               IF last'.arg = "wrong"
               THEN IF users[u].failed_attempts + 1 = MaxFailedAttempts
                    THEN /\ users'[u].failed_attempts = 0
                         /\ users'[u].lockout_until > clock
                    ELSE /\ users'[u].failed_attempts
                                = users[u].failed_attempts + 1
                         /\ users'[u].lockout_until = users[u].lockout_until
               ELSE /\ users'[u].failed_attempts = 0
                    /\ users'[u].lockout_until = NULL
         ]_vars

\* the right password after wrong ones and an expired lock, on an account
\* the login then turns away
C35_Witness ==
    /\ last.op = "login"
    /\ last.arg = "right"
    /\ last.result \in {"unapproved", "quota_denied", "pending"}
    /\ users[last.user].failed_attempts = 0
    /\ users[last.user].lockout_until = NULL
    /\ clock > 0

\* C36: a user enters the sessions only by a login of that user in which
\* the password was right, the lockout window was not open, the status was
\* not pending_delete and is not made so by the login, and is_approved is 1.
C36_SessionOnlyWhenAllChecksPass ==
    [][ \A u \in Usernames :
          (u \in sessions' /\ u \notin sessions) =>
            /\ last'.op = "login"
            /\ last'.user = u
            /\ last'.arg = "right"
            /\ users[u].exists
            /\ ~LockWindowOpen(u)
            /\ users[u].status # "pending_delete"
            /\ users'[u].status # "pending_delete"
            /\ users[u].is_approved = 1
      ]_vars

\* a login of an approved intensive student, on a later day, that opens a
\* session
C36_Witness ==
    /\ last.op = "login"
    /\ last.result = "ok"
    /\ last.user \in sessions
    /\ users[last.user].is_intensive = 1
    /\ Today >= 1

\* the log holds a pardoned event of u
WasPardoned(log, u) ==
    \E i \in 1..Len(log) :
        log[i].username = u /\ log[i].action_type = "pardoned"

\* the log holds an event of u logged no more than days whole days before t
ActiveWithin(log, u, t, days) ==
    \E i \in 1..Len(log) :
        log[i].username = u /\ (t - log[i].timestamp) \div TicksPerDay <= days

\* C37: the pardon leaves an event that makes the user not inactive, and
\* no more: a login with the right password of a pardoned active intensive
\* user whose grace period has elapsed sets the status back to
\* pending_delete and opens no session when the score over the window is
\* below 30, and leaves the status active when answer and create events
\* have taken the score to 30.
C37_PardonDoesNotLiftQuota ==
    [][ \A u \in Usernames :
          /\ (last'.op = "pardon" /\ last'.user = u) =>
                /\ WasPardoned(activity_log', u)
                /\ ActiveWithin(activity_log', u, clock',
                                users'[u].max_inactivity_days)
          /\ ( /\ last'.op = "login" /\ last'.user = u /\ last'.arg = "right"
               /\ WasPardoned(activity_log, u)
               /\ GraceElapsed(users[u])
               /\ users[u].status = "active"
               /\ last'.result # "locked" ) =>
                IF ScoreInWindow(u) < 30
                THEN /\ IsPending(users', u)
                     /\ last'.result = "quota_denied"
                     /\ sessions' = sessions
                ELSE /\ users'[u].status = "active"
                     /\ last'.result \in {"ok", "unapproved"}
      ]_vars

\* a pardoned user, not inactive thanks to the pardoned event, with 28
\* points in the window, turned away again
C37_Witness ==
    /\ last.op = "login"
    /\ last.result = "quota_denied"
    /\ WasPardoned(activity_log, last.user)
    /\ ActiveWithin(activity_log, last.user, clock,
                    users[last.user].max_inactivity_days)
    /\ ScoreInWindow(last.user) = 28
    /\ IsPending(users, last.user)

\* the users who hold a negative vote on question q
Unlikers(votes, q) == {u \in Usernames : votes[<<u, q>>] = -1}

\* C38: a negative vote that leaves the question with three or more
\* negative votes sets its status to needs_revision, after which the
\* question is not offered as next question; a vote is cast by a user who
\* held none on that question and no stored vote changes afterwards, so a
\* question goes to revision only when three different users voted against
\* it.
C38_ThreeUnlikesSendToRevision ==
    /\ []((last.op = "next" /\ last.result # "none") =>
              questions[last.qid].status = "active")
    /\ [][ /\ \A k \in DOMAIN question_votes :
                question_votes[k] # NoVote =>
                    question_votes'[k] = question_votes[k]
           /\ \A q \in QuestionIds :
                /\ ( /\ last'.op = "vote" /\ last'.qid = q
                     /\ last'.arg = "unlike"
                     /\ Cardinality(Unlikers(question_votes', q)) >= 3 ) =>
                      questions'[q].status = "needs_revision"
                /\ ( /\ questions[q].exists
                     /\ questions[q].status = "active"
                     /\ questions'[q].status = "needs_revision" ) =>
                      /\ last'.op = "vote" /\ last'.qid = q
                      /\ last'.arg = "unlike"
                      /\ Cardinality(Unlikers(question_votes', q)) >= 3
      ]_vars

\* the third negative vote on a question that is then no longer offered
C38_Witness ==
    /\ last.op = "vote"
    /\ last.arg = "unlike"
    /\ Cardinality(Unlikers(question_votes, last.qid)) = 3
    /\ questions[last.qid].status = "needs_revision"
    /\ \E q \in QuestionIds :
          /\ questions[q].exists
          /\ Cardinality(Unlikers(question_votes, q)) = 2
          /\ question_votes[<<"u1", q>>] = 1
          /\ questions[q].status = "active"

\* the four tables delete_user_from_db writes are as they were
NothingDeleted ==
    /\ users' = users
    /\ progress' = progress
    /\ questions' = questions
    /\ duels' = duels

\* the user row, the progress rows and the duels of u are gone, the
\* questions of u are the administrator's, and nothing else has changed
AllDeleted(u) ==
    /\ \A v \in Usernames :
          users'[v] = IF v = u THEN NoRow ELSE users[v]
    /\ \A k \in DOMAIN progress :
          progress'[k] = IF k[1] = u THEN NoRow ELSE progress[k]
    /\ duels' \subseteq duels
    /\ \A d \in duels : d \in duels' <=> (d[1] # u /\ d[2] # u)
    /\ \A q \in QuestionIds :
          /\ questions'[q].exists = questions[q].exists
          /\ questions[q].exists =>
                IF questions[q].owner_username = u
                THEN questions'[q] =
                        [questions[q] EXCEPT !.owner_username = ADMIN_USER]
                ELSE questions'[q] = questions[q]

\* C39: delete_user_from_db leaves the row of the main administrator; for
\* any other user it either removes the user row, the progress rows and the
\* duels of the user and hands the user's questions to the administrator,
\* deleting no question, or leaves the four tables as they were.
C39_DeleteAllOrNothing ==
    /\ [](users[ADMIN_USER].exists)
    /\ [][ \A u \in Usernames :
             (last'.op = "delete" /\ last'.user = u) =>
                /\ u = ADMIN_USER => NothingDeleted
                /\ NothingDeleted \/ AllDeleted(u)
                /\ last'.result = "done" => AllDeleted(u)
                /\ last'.result = "error" => NothingDeleted
         ]_vars

\* u1 was deleted and the question of u1 is the administrator's; the
\* deletion of u2, who has voted, studied and duelled, has just failed
C39_Witness ==
    /\ ~users["u1"].exists
    /\ questions[2].owner_username = ADMIN_USER
    /\ last.op = "delete"
    /\ last.user = "u2"
    /\ last.result = "error"
    /\ users["u2"].exists
    /\ question_votes[<<"u2", 1>>] = -1
    /\ progress[<<"u2", 1>>].exists
    /\ <<ADMIN_USER, "u2">> \in duels
    /\ questions[3].exists
    /\ questions[3].owner_username = "u2"

====
